---------------------------- MODULE Spec2Model ----------------------------
(***************************************************************************)
(* Model of the marker tokenizer / identifier injector                     *)
(* (src/master-dashboard.ts), the semantic block codec and reconciliation  *)
(* engine (src/semantic-block.ts) and the classifySelection dual write     *)
(* (src/unnamed/part_000).                                                 *)
(*                                                                         *)
(* Text is a sequence of symbols.  A symbol is a one-character string      *)
(* (":", "<", " ", "\n", "%", ...) or a run of letters that no operation   *)
(* of the program ever splits (a JSON key such as "annotations", the word  *)
(* "semantic").  Offsets are 0-based as in the source.                     *)
(***************************************************************************)
EXTENDS Integers, Sequences, FiniteSets, TLC

VARIABLES
    mRegistry,   \* shortcodeMap: the definitions in insertion order
    mFile,       \* the document text
    mPrev,       \* the document text before the last operation
    mAssigned,   \* marker index -> identifier handed out by the last operation
    mLast,       \* the last operation: "load", "inject", "reinject", "save"
    mPass,       \* number of operations applied to the document
    bDoc,        \* codec: the document text
    bPrev,       \* codec: the document text before the last operation
    bBlock,      \* codec: the block handed to the last embed
    bResult,     \* codec: what extractSemanticBlock returned, once it has run
    bLast,       \* codec: the last operation: "load", "embed", "remove"
    bOps,        \* codec: number of operations applied to the document
    sBlock,      \* reconciliation: the SemanticBlock being edited
    sPrev,       \* reconciliation: the block before the last operation
    sStore,      \* reconciliation: the rows the store returns for the file
    sText,       \* reconciliation: the document text
    sOut,        \* reconciliation: what findUnsyncedAnnotations returned last
    sLast,       \* reconciliation: the last operation
    sNow,        \* reconciliation: the clock, one tick per operation
    kFile,       \* classify: the file's content in the vault
    kStore,      \* classify: the committed store records, in commit order
    kPc,         \* classify: where each classifySelection call stands
    kLocal,      \* classify: each call's local variables
    kNotice,     \* classify: the notices each call has shown
    kClock,      \* classify: the clock, one tick per step
    dItems,      \* batch: the items processAndClassifyDocument returned
    dIndex,      \* batch: the item the for loop stands at (1-based)
    dSaved,      \* batch: savedCount
    dAttempts,   \* batch: history, the indices of the items taken up so far
    dPc,         \* batch: position in autoClassifyDocument / saveClassification
    dCls,        \* batch: the classification being saved
    dDb,         \* store: the committed statements and statement_types rows
    dTx,         \* store: the rows written in the open transaction
    dBefore,     \* store: history, the committed rows when the call began
    dOutcomes,   \* store: history, how each saveClassification call ended
    dNotices,    \* batch: the notices shown
    dNextId,     \* store: counter behind gen_random_uuid()
    tRegistry,   \* tokenizer: shortcodeMap, the definitions in insertion order
    tParts,      \* tokenizer: history, the pieces the document was written from
    tDoc,        \* tokenizer: the document text
    tMade,       \* tokenizer: history, the (code, content) createMarker was given
    tNodes,      \* tokenizer: what parseMarkers returned
    tLast,       \* tokenizer: the last operation: "load", "create", "parse", "reinject"
    nStore,      \* node store: the rows of epistemic.atomic_nodes
    nPc,         \* node store: position in insertNode
    nMarker,     \* node store: the marker insertNode was handed
    nCall,       \* node store: the uuid the call works on; history of its start
    nOutcomes,   \* node store: history, how each insertNode call ended
    nNextId,     \* node store: counter behind the uuid column's default
    nSaves       \* node store: number of insertNode calls started

markerVars == <<mRegistry, mFile, mPrev, mAssigned, mLast, mPass>>
blockVars == <<bDoc, bPrev, bBlock, bResult, bLast, bOps>>
syncVars == <<sBlock, sPrev, sStore, sText, sOut, sLast, sNow>>

classifyVars == <<kFile, kStore, kPc, kLocal, kNotice, kClock>>

batchVars == <<dItems, dIndex, dSaved, dAttempts, dPc, dCls, dDb, dTx, dBefore,
               dOutcomes, dNotices, dNextId>>

tokenVars == <<tRegistry, tParts, tDoc, tMade, tNodes, tLast>>

nodeVars == <<nStore, nPc, nMarker, nCall, nOutcomes, nNextId, nSaves>>

vars == <<markerVars, blockVars, syncVars, classifyVars, batchVars, tokenVars, nodeVars>>

\* what each component leaves alone
nonMarkerVars == <<blockVars, syncVars, classifyVars, batchVars, tokenVars, nodeVars>>
nonBlockVars == <<markerVars, syncVars, classifyVars, batchVars, tokenVars, nodeVars>>
nonSyncVars == <<markerVars, blockVars, classifyVars, batchVars, tokenVars, nodeVars>>
nonClassifyVars == <<markerVars, blockVars, syncVars, batchVars, tokenVars, nodeVars>>
nonBatchVars == <<markerVars, blockVars, syncVars, classifyVars, tokenVars, nodeVars>>
nonTokenVars == <<markerVars, blockVars, syncVars, classifyVars, batchVars, nodeVars>>
nonNodeVars == <<markerVars, blockVars, syncVars, classifyVars, batchVars, tokenVars>>

-----------------------------------------------------------------------------
(* Bounds *)

MaxSegs == 2      \* a document is built from at most this many segments
MaxPasses == 2    \* operations applied to one document
MaxOps == 2       \* codec operations applied to one document
MaxSyncOps == 2   \* reconciliation operations applied to one block
MaxItems == 2     \* items in one autoClassifyDocument batch
MaxParts == 3     \* pieces a tokenized document is written from
MaxContent == 3   \* symbols in the content handed to createMarker

-----------------------------------------------------------------------------
(* Text helpers: String.prototype.substring / trim / trimEnd, and \s *)

Min(S) == CHOOSE x \in S : \A y \in S : x <= y

Clamp(n, len) == IF n < 0 THEN 0 ELSE IF n > len THEN len ELSE n

\* s.substring(a, b): both ends clamped to [0, length], swapped when a > b
Substring(s, a, b) ==
    LET ca == Clamp(a, Len(s))
        cb == Clamp(b, Len(s))
        lo == IF ca <= cb THEN ca ELSE cb
        hi == IF ca <= cb THEN cb ELSE ca
    IN  SubSeq(s, lo + 1, hi)

\* s.substring(a)
SubstringFrom(s, a) == Substring(s, a, Len(s))

WS == {" ", "\n", "\t"}

IsWS(c) == c \in WS

\* the text s has the text p at offset i
HasAt(s, i, p) ==
    /\ i >= 0
    /\ i + Len(p) <= Len(s)
    /\ SubSeq(s, i + 1, i + Len(p)) = p

\* offset of the first non-whitespace symbol at or after offset i (Len(s) if none)
RECURSIVE WsRunEnd(_, _)
WsRunEnd(s, i) ==
    IF i < Len(s) /\ IsWS(s[i + 1]) THEN WsRunEnd(s, i + 1) ELSE i

\* s.trimEnd()
TrimEnd(s) ==
    LET keep == {j \in 1..Len(s) : ~IsWS(s[j])}
    IN  IF keep = {} THEN <<>>
        ELSE SubSeq(s, 1, CHOOSE j \in keep : \A k \in keep : k <= j)

\* s.trim()
Trim(s) ==
    LET t == TrimEnd(s)
    IN  IF t = <<>> THEN <<>> ELSE SubSeq(t, WsRunEnd(t, 0) + 1, Len(t))

RECURSIVE Cat(_)
Cat(ss) == IF ss = <<>> THEN <<>> ELSE Head(ss) \o Cat(Tail(ss))

\* the value `undefined` of an optional string
Undefined == <<"undefined">>

\* JavaScript truthiness of an optional string
Truthy(u) == u # Undefined /\ u # <<>>

-----------------------------------------------------------------------------
(* Shortcode parser: src/master-dashboard.ts *)

Colons == <<":", ":", ":">>

\* Array.prototype.sort((a, b) => b.length - a.length): stable, longest first
RECURSIVE InsertByLength(_, _)
InsertByLength(sorted, c) ==
    IF sorted = <<>> THEN <<c>>
    ELSE IF Len(Head(sorted)) >= Len(c)
         THEN <<Head(sorted)>> \o InsertByLength(Tail(sorted), c)
         ELSE <<c>> \o sorted

RECURSIVE SortCodesFrom(_, _)
SortCodesFrom(done, rest) ==
    IF rest = <<>> THEN done
    ELSE SortCodesFrom(InsertByLength(done, Head(rest)), Tail(rest))

\* the alternation of createMarkerRegex, in the order the regex tries it
RegexCodes(shortcodes) ==
    SortCodesFrom(<<>>, [i \in 1..Len(shortcodes) |-> shortcodes[i].shortcode])

NoMatch == [ok |-> FALSE]

\* \s+(.*?)\s*::: at offset k.  \s+ takes the whole whitespace run; the lazy
\* content stops at the first offset from which \s*::: matches.
RECURSIVE LazyStop(_, _)
LazyStop(s, p) ==
    IF p > Len(s) THEN -1
    ELSE IF HasAt(s, WsRunEnd(s, p), Colons) THEN p
    ELSE LazyStop(s, p + 1)

\* the match once the whitespace run ends at w and the lazy content at p
TailAt(s, w, p) ==
    IF p < 0 THEN NoMatch
    ELSE [ok |-> TRUE, content |-> Substring(s, w, p), end |-> WsRunEnd(s, p) + 3]

MatchTail(s, k) ==
    IF ~(k < Len(s) /\ IsWS(s[k + 1])) THEN NoMatch
    ELSE TailAt(s, WsRunEnd(s, k), LazyStop(s, WsRunEnd(s, k)))

\* (?:<([^>]+)>)?\s+(.*?)\s*::: at offset j.  The optional group is greedy:
\* it is tried first, and [^>]+ can only end at the first ">".
RECURSIVE FirstGt(_, _)
FirstGt(s, g) ==
    IF g >= Len(s) THEN -1 ELSE IF s[g + 1] = ">" THEN g ELSE FirstGt(s, g + 1)

\* the group taken: "<" at j, ">" at g, and the tail t matched after it
WithId(s, j, g, t) ==
    IF t.ok
    THEN [ok |-> TRUE, uuid |-> Substring(s, j + 1, g), content |-> t.content, end |-> t.end]
    ELSE NoMatch

MatchWithId(s, j, g) ==
    IF j < Len(s) /\ s[j + 1] = "<" /\ g >= j + 2
    THEN WithId(s, j, g, MatchTail(s, g + 1))
    ELSE NoMatch

\* the group skipped: the tail t matched at j
WithoutId(t) ==
    IF t.ok THEN [ok |-> TRUE, uuid |-> Undefined, content |-> t.content, end |-> t.end]
    ELSE NoMatch

FirstOk(a, b) == IF a.ok THEN a ELSE b

MatchRest(s, j) ==
    FirstOk(MatchWithId(s, j, FirstGt(s, j + 1)), WithoutId(MatchTail(s, j)))

\* the whole pattern at offset i: the first code of the alternation for
\* which the rest of the pattern matches
RECURSIVE MatchCode(_, _, _, _)
MatchCodeWith(s, i, codes, n, r) ==
    IF r.ok
    THEN [ok |-> TRUE, index |-> i, shortcode |-> codes[n], uuid |-> r.uuid,
          content |-> r.content, end |-> r.end]
    ELSE MatchCode(s, i, codes, n + 1)

MatchCode(s, i, codes, n) ==
    IF n > Len(codes) THEN NoMatch
    ELSE MatchCodeWith(s, i, codes, n,
             IF HasAt(s, i + 3, codes[n]) THEN MatchRest(s, i + 3 + Len(codes[n]))
             ELSE NoMatch)

\* a scanner that settles on the shortest code found after ":::" and never
\* tries another
MatchAtShortestCode(s, i, codes) ==
    LET hits == {n \in 1..Len(codes) : HasAt(s, i + 3, codes[n])}
        short == {n \in hits : \A o \in hits : Len(codes[n]) <= Len(codes[o])}
    IN  IF ~HasAt(s, i, Colons) \/ hits = {} THEN NoMatch
        ELSE MatchCodeWith(s, i, <<codes[Min(short)]>>, 1,
                           MatchRest(s, i + 3 + Len(codes[Min(short)])))

MatchAt(s, i, codes) ==
    IF ~HasAt(s, i, Colons) THEN NoMatch ELSE MatchCode(s, i, codes, 1)

\* regex.exec with lastIndex = from: the leftmost match at or after `from`
RECURSIVE Exec(_, _, _)
Exec(s, from, codes) ==
    IF from >= Len(s) THEN NoMatch
    ELSE FirstOk(MatchAt(s, from, codes), Exec(s, from + 1, codes))

\* shortcodeMap.get(shortcode)
MapGet(shortcodeMap, code) ==
    LET at == {i \in 1..Len(shortcodeMap) : shortcodeMap[i].shortcode = code}
    IN  IF at = {} THEN [found |-> FALSE]
        ELSE [found |-> TRUE, def |-> shortcodeMap[Min(at)]]

\* one turn of the while loop for the match m: `continue` without a
\* definition, nodes.push(...) with one
PushNode(s, m, definition, rest) ==
    IF ~definition.found THEN rest
    ELSE <<[uuid |-> IF Truthy(m.uuid) THEN m.uuid ELSE Undefined,
            type |-> definition.def.type,
            shortcode |-> m.shortcode,
            content |-> Trim(m.content),
            startOffset |-> m.index,
            endOffset |-> m.end,
            rawMatch |-> Substring(s, m.index, m.end)]>> \o rest

RECURSIVE ParseFrom(_, _, _, _)
\* a loop that resumes one character after the start of the last match
ParseMatchOverlapping(s, m, codes, shortcodeMap) ==
    IF ~m.ok THEN <<>>
    ELSE PushNode(s, m, MapGet(shortcodeMap, m.shortcode),
                  ParseFrom(s, m.index + 1, codes, shortcodeMap))

ParseMatch(s, m, codes, shortcodeMap) ==
    IF ~m.ok THEN <<>>
    ELSE PushNode(s, m, MapGet(shortcodeMap, m.shortcode),
                  ParseFrom(s, m.end, codes, shortcodeMap))

ParseFrom(s, from, codes, shortcodeMap) ==
    ParseMatch(s, Exec(s, from, codes), codes, shortcodeMap)

parseMarkers(fileContent, shortcodeMap) ==
    ParseFrom(fileContent, 0, RegexCodes(shortcodeMap), shortcodeMap)

\* a serializer without the blank between code and content
createMarkerTight(shortcode, content, uuid) ==
    IF Truthy(uuid)
    THEN Colons \o shortcode \o <<"<">> \o uuid \o <<">">> \o content \o <<" ">> \o Colons
    ELSE Colons \o shortcode \o content \o <<" ">> \o Colons

createMarker(shortcode, content, uuid) ==
    IF Truthy(uuid)
    THEN Colons \o shortcode \o <<"<">> \o uuid \o <<">", " ">> \o content
             \o <<" ">> \o Colons
    ELSE Colons \o shortcode \o <<" ">> \o content \o <<" ">> \o Colons

injectUUID(marker, uuid) == createMarker(marker.shortcode, marker.content, uuid)

\* Array.from(updates.entries()).sort(([a], [b]) => b - a): keys, largest first
RECURSIVE KeysDescending(_)
KeysDescending(keys) ==
    IF keys = {} THEN <<>>
    ELSE LET top == CHOOSE k \in keys : \A o \in keys : o <= k
         IN  <<top>> \o KeysDescending(keys \ {top})

RECURSIVE KeysAscending(_)
KeysAscending(keys) ==
    IF keys = {} THEN <<>>
    ELSE <<Min(keys)>> \o KeysAscending(keys \ {Min(keys)})

SortedUpdateKeys(keys) == KeysDescending(keys)

RECURSIVE ApplyUpdates(_, _, _)
ApplyUpdates(content, order, updates) ==
    IF order = <<>> THEN content
    ELSE LET u == updates[Head(order)]
             newMarker == injectUUID(u.node, u.uuid)
         IN  ApplyUpdates(Substring(content, 0, u.node.startOffset) \o newMarker
                              \o SubstringFrom(content, u.node.endOffset),
                          Tail(order), updates)

\* updates: a function from the Map's keys to [node, uuid]
updateFileWithUUIDs(fileContent, updates) ==
    ApplyUpdates(fileContent, SortedUpdateKeys(DOMAIN updates), updates)

-----------------------------------------------------------------------------
(* JSON.stringify(value, null, 2) and JSON.parse.  A JavaScript value is a   *)
(* tagged record; an object's members are kept in insertion order.           *)

JNull == [t |-> "null"]
JNum(n) == [t |-> "num", n |-> n]
JBool(b) == [t |-> "bool", b |-> b]
JStr(str) == [t |-> "str", s |-> str]
JArr(items) == [t |-> "arr", a |-> items]
JObj(members) == [t |-> "obj", o |-> members]

Quote == "\""
Backslash == "\\"

Indent(n) == [i \in 1..n |-> " "]

\* a plausible slip: line breaks written into the literal as they are
EscapeSymKeepingBreaks(c) ==
    CASE c = Quote -> <<Backslash, Quote>>
      [] c = Backslash -> <<Backslash, Backslash>>
      [] OTHER -> <<c>>

\* the escapes JSON.stringify writes inside a string literal
EscapeSym(c) ==
    CASE c = Quote -> <<Backslash, Quote>>
      [] c = Backslash -> <<Backslash, Backslash>>
      [] c = "\n" -> <<Backslash, "n">>
      [] c = "\t" -> <<Backslash, "t">>
      [] OTHER -> <<c>>

RECURSIVE Escape(_)
Escape(str) == IF str = <<>> THEN <<>> ELSE EscapeSym(Head(str)) \o Escape(Tail(str))

StringLiteral(str) == <<Quote>> \o Escape(str) \o <<Quote>>

RECURSIVE Stringify(_, _)
RECURSIVE StringifyItems(_, _, _)
RECURSIVE StringifyMembers(_, _, _)

StringifyItems(items, ind, i) ==
    Indent(ind) \o Stringify(items[i], ind)
        \o (IF i < Len(items)
            THEN <<",", "\n">> \o StringifyItems(items, ind, i + 1)
            ELSE <<>>)

StringifyMembers(members, ind, i) ==
    Indent(ind) \o StringLiteral(members[i].k) \o <<":", " ">>
        \o Stringify(members[i].v, ind)
        \o (IF i < Len(members)
            THEN <<",", "\n">> \o StringifyMembers(members, ind, i + 1)
            ELSE <<>>)

\* JSON.stringify(v, null, 2) of a value nested at indentation `ind`
Stringify(v, ind) ==
    CASE v.t = "null" -> <<"null">>
      [] v.t = "num" -> <<ToString(v.n)>>
      [] v.t = "bool" -> <<IF v.b THEN "true" ELSE "false">>
      [] v.t = "str" -> StringLiteral(v.s)
      [] v.t = "arr" ->
            IF v.a = <<>> THEN <<"[", "]">>
            ELSE <<"[", "\n">> \o StringifyItems(v.a, ind + 2, 1)
                     \o <<"\n">> \o Indent(ind) \o <<"]">>
      [] v.t = "obj" ->
            IF v.o = <<>> THEN <<"{", "}">>
            ELSE <<"{", "\n">> \o StringifyMembers(v.o, ind + 2, 1)
                     \o <<"\n">> \o Indent(ind) \o <<"}">>

JSONstringify(v) == Stringify(v, 0)

\* number lexemes of the model: one symbol each
NumMax == 40
NumSyms == {ToString(n) : n \in 0..NumMax}
SymNum(c) == CHOOSE n \in 0..NumMax : ToString(n) = c

JFail == [ok |-> FALSE]

\* index (1-based) of the first symbol at or after i that is not JSON whitespace
RECURSIVE SkipWs(_, _)
SkipWs(s, i) == IF i <= Len(s) /\ IsWS(s[i]) THEN SkipWs(s, i + 1) ELSE i

\* the body of a string literal from index j on; acc is the text read so far
RECURSIVE StringBody(_, _, _)
StringBody(s, j, acc) ==
    IF j > Len(s) THEN JFail
    ELSE IF s[j] = Quote THEN [ok |-> TRUE, v |-> JStr(acc), next |-> j + 1]
    ELSE IF s[j] = Backslash
         THEN IF j + 1 > Len(s) THEN JFail
              ELSE CASE s[j + 1] = Quote -> StringBody(s, j + 2, Append(acc, Quote))
                     [] s[j + 1] = Backslash -> StringBody(s, j + 2, Append(acc, Backslash))
                     [] s[j + 1] = "n" -> StringBody(s, j + 2, Append(acc, "\n"))
                     [] s[j + 1] = "t" -> StringBody(s, j + 2, Append(acc, "\t"))
                     [] OTHER -> JFail
    ELSE IF s[j] \in {"\n", "\t"} THEN JFail
    ELSE StringBody(s, j + 1, Append(acc, s[j]))

\* obj[key] = v: a repeated key keeps its place and takes the later value
PutMember(members, key, v) ==
    IF \E i \in 1..Len(members) : members[i].k = key
    THEN [i \in 1..Len(members) |->
             IF members[i].k = key THEN [k |-> key, v |-> v] ELSE members[i]]
    ELSE Append(members, [k |-> key, v |-> v])

RECURSIVE ParseValue(_, _)
RECURSIVE ParseItems(_, _, _)
RECURSIVE ParseMembers(_, _, _)

\* the elements of an array from index i on, after "[" or ","
ParseItems(s, i, acc) ==
    LET e == ParseValue(s, i)
    IN  IF ~e.ok THEN JFail
        ELSE LET d == SkipWs(s, e.next)
             IN  IF d > Len(s) THEN JFail
                 ELSE IF s[d] = "," THEN ParseItems(s, d + 1, Append(acc, e.v))
                 ELSE IF s[d] = "]"
                      THEN [ok |-> TRUE, v |-> JArr(Append(acc, e.v)), next |-> d + 1]
                 ELSE JFail

\* the members of an object from index i on, after "{" or ","
ParseMembers(s, i, acc) ==
    LET q == SkipWs(s, i)
    IN  IF q > Len(s) \/ s[q] # Quote THEN JFail
        ELSE LET key == StringBody(s, q + 1, <<>>)
             IN  IF ~key.ok THEN JFail
                 ELSE LET c == SkipWs(s, key.next)
                      IN  IF c > Len(s) \/ s[c] # ":" THEN JFail
                          ELSE LET e == ParseValue(s, c + 1)
                               IN  IF ~e.ok THEN JFail
                                   ELSE LET d == SkipWs(s, e.next)
                                            put == PutMember(acc, key.v.s, e.v)
                                        IN  IF d > Len(s) THEN JFail
                                            ELSE IF s[d] = ","
                                                 THEN ParseMembers(s, d + 1, put)
                                            ELSE IF s[d] = "}"
                                                 THEN [ok |-> TRUE, v |-> JObj(put),
                                                       next |-> d + 1]
                                            ELSE JFail

ParseValue(s, i0) ==
    LET i == SkipWs(s, i0)
    IN  IF i > Len(s) THEN JFail
        ELSE CASE s[i] = "null" -> [ok |-> TRUE, v |-> JNull, next |-> i + 1]
               [] s[i] = "true" -> [ok |-> TRUE, v |-> JBool(TRUE), next |-> i + 1]
               [] s[i] = "false" -> [ok |-> TRUE, v |-> JBool(FALSE), next |-> i + 1]
               [] s[i] \in NumSyms -> [ok |-> TRUE, v |-> JNum(SymNum(s[i])), next |-> i + 1]
               [] s[i] = Quote -> StringBody(s, i + 1, <<>>)
               [] s[i] = "[" ->
                     LET c == SkipWs(s, i + 1)
                     IN  IF c <= Len(s) /\ s[c] = "]"
                         THEN [ok |-> TRUE, v |-> JArr(<<>>), next |-> c + 1]
                         ELSE ParseItems(s, i + 1, <<>>)
               [] s[i] = "{" ->
                     LET c == SkipWs(s, i + 1)
                     IN  IF c <= Len(s) /\ s[c] = "}"
                         THEN [ok |-> TRUE, v |-> JObj(<<>>), next |-> c + 1]
                         ELSE ParseMembers(s, i + 1, <<>>)
               [] OTHER -> JFail

\* JSON.parse(text): [ok |-> TRUE, v |-> value], or ok = FALSE for a SyntaxError
JSONparse(text) ==
    LET r == ParseValue(text, 1)
    IN  IF r.ok /\ SkipWs(text, r.next) > Len(text)
        THEN [ok |-> TRUE, v |-> r.v]
        ELSE JFail

-----------------------------------------------------------------------------
(* Semantic block values: src/semantic-block.ts, the interfaces              *)

\* the value `undefined` of an optional number
UndefinedNum == 0 - 1

JUndefined == [t |-> "undefined"]

\* new Date().toISOString() at clock value n
Iso(n) == <<"T", ToString(n)>>

\* one member of an object literal; JSON.stringify leaves out undefined ones
StrMember(key, str) ==
    IF str = Undefined THEN <<>> ELSE <<[k |-> <<key>>, v |-> JStr(str)]>>

NumMember(key, n) ==
    IF n = UndefinedNum THEN <<>> ELSE <<[k |-> <<key>>, v |-> JNum(n)]>>

ValMember(key, v) == <<[k |-> <<key>>, v |-> v]>>

StrList(strs) == JArr([i \in 1..Len(strs) |-> JStr(strs[i])])

\* a SemanticAnnotation as the object JSON.stringify sees
AnnotationValue(a) ==
    JObj(StrMember("uuid", a.uuid)
         \o StrMember("kind", a.kind)
         \o StrMember("text", a.text)
         \o NumMember("start", a.start)
         \o NumMember("end", a.end)
         \o NumMember("lineStart", a.lineStart)
         \o NumMember("lineEnd", a.lineEnd)
         \o StrMember("created", a.created)
         \o StrMember("modified", a.modified)
         \o StrMember("createdBy", a.createdBy)
         \o NumMember("confidence", a.confidence)
         \o StrMember("theory", a.theory)
         \o ValMember("tags", StrList(a.tags))
         \o ValMember("properties",
                JObj(StrMember("profile", a.properties.profile)
                     \o StrMember("notes", a.properties.notes))))

\* a SemanticRelationship as the object JSON.stringify sees
RelationshipValue(r) ==
    JObj(StrMember("uuid", r.uuid)
         \o StrMember("type", r.type)
         \o StrMember("source", r.source)
         \o StrMember("target", r.target)
         \o NumMember("confidence", r.confidence)
         \o StrMember("created", r.created)
         \o StrMember("createdBy", r.createdBy)
         \o ValMember("bidirectional", JBool(r.bidirectional))
         \o ValMember("properties", JObj(<<>>)))

\* a SemanticBlock as the object JSON.stringify sees
BlockValue(b) ==
    JObj(StrMember("version", b.version)
         \o StrMember("uuid", b.uuid)
         \o StrMember("created", b.created)
         \o StrMember("modified", b.modified)
         \o ValMember("annotations",
                JArr([i \in 1..Len(b.annotations) |-> AnnotationValue(b.annotations[i])]))
         \o ValMember("relationships",
                JArr([i \in 1..Len(b.relationships) |-> RelationshipValue(b.relationships[i])]))
         \o ValMember("metadata",
                JObj(StrMember("title", b.metadata.title)
                     \o ValMember("theories", StrList(b.metadata.theories))
                     \o ValMember("flags", StrList(b.metadata.flags))
                     \o ValMember("customFields", JObj(<<>>)))))

\* value.key of a parsed value (undefined when there is no such member)
Member(v, key) ==
    IF v.t = "obj" /\ \E i \in 1..Len(v.o) : v.o[i].k = <<key>>
    THEN v.o[CHOOSE i \in 1..Len(v.o) : v.o[i].k = <<key>>].v
    ELSE JUndefined

StrOf(v) == IF v.t = "str" THEN v.s ELSE Undefined
NumOf(v) == IF v.t = "num" THEN v.n ELSE UndefinedNum
ListOf(v) == IF v.t = "arr" THEN v.a ELSE <<>>
StrsOf(v) == [i \in 1..Len(ListOf(v)) |-> StrOf(ListOf(v)[i])]

\* a parsed object read through the SemanticAnnotation interface
ValueAnnotation(v) ==
    [uuid |-> StrOf(Member(v, "uuid")),
     kind |-> StrOf(Member(v, "kind")),
     text |-> StrOf(Member(v, "text")),
     start |-> NumOf(Member(v, "start")),
     end |-> NumOf(Member(v, "end")),
     lineStart |-> NumOf(Member(v, "lineStart")),
     lineEnd |-> NumOf(Member(v, "lineEnd")),
     created |-> StrOf(Member(v, "created")),
     modified |-> StrOf(Member(v, "modified")),
     createdBy |-> StrOf(Member(v, "createdBy")),
     confidence |-> NumOf(Member(v, "confidence")),
     theory |-> StrOf(Member(v, "theory")),
     tags |-> StrsOf(Member(v, "tags")),
     properties |-> [profile |-> StrOf(Member(Member(v, "properties"), "profile")),
                     notes |-> StrOf(Member(Member(v, "properties"), "notes"))]]

\* a parsed object read through the SemanticRelationship interface
ValueRelationship(v) ==
    [uuid |-> StrOf(Member(v, "uuid")),
     type |-> StrOf(Member(v, "type")),
     source |-> StrOf(Member(v, "source")),
     target |-> StrOf(Member(v, "target")),
     confidence |-> NumOf(Member(v, "confidence")),
     created |-> StrOf(Member(v, "created")),
     createdBy |-> StrOf(Member(v, "createdBy")),
     bidirectional |-> Member(v, "bidirectional") = JBool(TRUE)]

\* a parsed object read through the SemanticBlock interface
ValueBlock(v) ==
    [version |-> StrOf(Member(v, "version")),
     uuid |-> StrOf(Member(v, "uuid")),
     created |-> StrOf(Member(v, "created")),
     modified |-> StrOf(Member(v, "modified")),
     annotations |-> [i \in 1..Len(ListOf(Member(v, "annotations"))) |->
                         ValueAnnotation(ListOf(Member(v, "annotations"))[i])],
     relationships |-> [i \in 1..Len(ListOf(Member(v, "relationships"))) |->
                           ValueRelationship(ListOf(Member(v, "relationships"))[i])],
     metadata |-> [title |-> StrOf(Member(Member(v, "metadata"), "title")),
                   theories |-> StrsOf(Member(Member(v, "metadata"), "theories")),
                   flags |-> StrsOf(Member(Member(v, "metadata"), "flags"))]]

\* the shape the SemanticBlock interface declares
IsSemanticBlock(v) ==
    /\ v.t = "obj"
    /\ Member(v, "version").t = "str"
    /\ Member(v, "uuid").t = "str"
    /\ Member(v, "annotations").t = "arr"
    /\ Member(v, "relationships").t = "arr"
    /\ Member(v, "metadata").t = "obj"

createNewSemanticBlock(fileTitle, existingAnnotations, noteId, now) ==
    [version |-> <<"1", ".", "0">>,
     uuid |-> <<"note-">> \o noteId,
     created |-> Iso(now),
     modified |-> Iso(now),
     annotations |-> existingAnnotations,
     relationships |-> <<>>,
     metadata |-> [title |-> fileTitle, theories |-> <<>>, flags |-> <<>>]]

-----------------------------------------------------------------------------
(* Semantic block codec: src/semantic-block.ts *)

\* the literal text of /^%%semantic\s*$/m and of /^%%\s*$/m
SEMANTIC_BLOCK_START == <<"%", "%", "semantic">>
SEMANTIC_BLOCK_END == <<"%", "%">>

\* ^ under the m flag: offset i starts a line
AtLineStart(s, i) == i = 0 \/ s[i] = "\n"

\* the largest offset q in [a, b) holding a line break, or -1
RECURSIVE LastBreak(_, _, _)
LastBreak(s, a, b) ==
    IF b <= a THEN -1 ELSE IF s[b] = "\n" THEN b - 1 ELSE LastBreak(s, a, b - 1)

\* where \s*$ ends when tried at offset a, or -1: the greedy run of
\* whitespace, given back to the last position that ends a line
LineTailEnd(s, a) ==
    LET b == WsRunEnd(s, a)
    IN  IF b = Len(s) THEN b ELSE LastBreak(s, a, b)

\* the offsets at which /^pat\s*$/m matches
LineMatches(s, pat) ==
    {i \in 0..(Len(s) - Len(pat)) :
        /\ AtLineStart(s, i)
        /\ HasAt(s, i, pat)
        /\ LineTailEnd(s, i + Len(pat)) >= 0}

\* content.match(/^pat\s*$/m): the leftmost match
LineMatch(s, pat) ==
    LET hits == LineMatches(s, pat)
    IN  IF hits = {} THEN NoMatch
        ELSE [ok |-> TRUE, index |-> Min(hits),
              end |-> LineTailEnd(s, Min(hits) + Len(pat))]

Absent == [kind |-> "null"]

\* the result is Absent (null), a value, or a raised error
extractSemanticBlock(content) ==
    LET startMatch == LineMatch(content, SEMANTIC_BLOCK_START)
    IN  IF ~startMatch.ok THEN Absent
        ELSE LET startIndex == startMatch.end
                 remainingContent == SubstringFrom(content, startIndex)
                 endMatch == LineMatch(remainingContent, SEMANTIC_BLOCK_END)
             IN  IF ~endMatch.ok THEN Absent
                 ELSE LET jsonContent == Trim(Substring(remainingContent, 0, endMatch.index))
                          parsed == JSONparse(jsonContent)
                      IN  IF ~parsed.ok THEN Absent
                          ELSE IF parsed.v = JNull THEN Absent
                          ELSE [kind |-> "block", v |-> parsed.v]

\* a remove that leaves a block without end sentinel where it is
removeOnlyClosedBlock(content) ==
    LET startMatch == LineMatch(content, SEMANTIC_BLOCK_START)
    IN  IF ~startMatch.ok THEN content
        ELSE IF ~LineMatch(SubstringFrom(content, startMatch.index), SEMANTIC_BLOCK_END).ok
             THEN content
             ELSE TrimEnd(Substring(content, 0, startMatch.index))

removeSemanticBlock(content) ==
    LET startMatch == LineMatch(content, SEMANTIC_BLOCK_START)
    IN  IF ~startMatch.ok THEN content
        ELSE LET startIndex == startMatch.index
                 remainingContent == SubstringFrom(content, startIndex)
                 endMatch == LineMatch(remainingContent, SEMANTIC_BLOCK_END)
             IN  IF ~endMatch.ok
                 THEN TrimEnd(Substring(content, 0, startIndex))
                 ELSE TrimEnd(Substring(content, 0, startIndex))

\* the serialized block with its sentinels, as embedSemanticBlock appends it
BlockText(block) ==
    <<"\n", "\n">> \o SEMANTIC_BLOCK_START \o <<"\n">>
        \o JSONstringify(BlockValue(block)) \o <<"\n">> \o SEMANTIC_BLOCK_END

\* a plausible slip: the new block appended without removing the old one
embedWithoutRemove(content, block) == content \o BlockText(block)

embedSemanticBlock(content, block) ==
    removeSemanticBlock(content) \o BlockText(block)

-----------------------------------------------------------------------------
(* The save workflow over the shortcode parser (src/ARCHITECTURE.md, "Sync  *)
(* on save"): parse, hand an identifier to markers, rewrite the document.   *)

DefH == [shortcode |-> <<"H">>, type |-> "Hypothesis"]
DefHX == [shortcode |-> <<"H", "X">>, type |-> "Hypothesis_X"]

\* user-defined registries: the same two codes, defined in either order
Registries == {<<DefH, DefHX>>, <<DefHX, DefH>>}

SegText == <<"x", "\n">>
SegPlain == Colons \o <<"H", " ", "a">> \o Colons
SegLoose == Colons \o <<"H", "X", " ", "\n", "b", " ", "c", " ", " ">> \o Colons
SegIdent == Colons \o <<"H", "<", "u", ">", " ", "a", " ">> \o Colons
SegDangling == Colons \o <<"H", "<", "q">>

Segments == {SegText, SegPlain, SegLoose, SegIdent, SegDangling}

Documents == {Cat(ss) : ss \in UNION {[1..n -> Segments] : n \in 0..MaxSegs}}

\* identifiers returned by the store: opaque, non-empty, without ">"
IdBases == {<<"i">>, <<"k", "k">>}

IdFor(base, i) == base \o <<ToString(i)>>

\* the Map<number, {node, uuid}> the caller builds: keyed by node.startOffset
UpdatesFor(nodes, assigned) ==
    LET idx == {i \in DOMAIN assigned : i <= Len(nodes)}
    IN  [k \in {nodes[i].startOffset : i \in idx} |->
            LET i == CHOOSE i \in idx : nodes[i].startOffset = k
            IN  [node |-> nodes[i], uuid |-> assigned[i]]]

MarkerIdle ==
    /\ mRegistry = <<>>
    /\ mFile = <<>>
    /\ mPrev = <<>>
    /\ mAssigned = <<>>
    /\ mLast = "idle"
    /\ mPass = 0

BlockIdle ==
    /\ bDoc = <<>>
    /\ bPrev = <<>>
    /\ bBlock = <<>>
    /\ bResult = [kind |-> "idle"]
    /\ bLast = "idle"
    /\ bOps = 0

SyncIdle ==
    /\ sBlock = <<>>
    /\ sPrev = <<>>
    /\ sStore = <<>>
    /\ sText = <<>>
    /\ sOut = <<>>
    /\ sLast = "idle"
    /\ sNow = 0

ClassifyIdle ==
    /\ kFile = <<>>
    /\ kStore = <<>>
    /\ kPc = <<>>
    /\ kLocal = <<>>
    /\ kNotice = <<>>
    /\ kClock = 0

NoRows == [statements |-> {}, links |-> {}]

BatchIdle ==
    /\ dItems = <<>>
    /\ dIndex = 0
    /\ dSaved = 0
    /\ dAttempts = <<>>
    /\ dPc = "idle"
    /\ dCls = <<>>
    /\ dDb = NoRows
    /\ dTx = NoRows
    /\ dBefore = NoRows
    /\ dOutcomes = <<>>
    /\ dNotices = <<>>
    /\ dNextId = 0

NoCall == [existed |-> FALSE, before |-> 0, uuid |-> <<>>]

NodeIdle ==
    /\ nStore = {}
    /\ nPc = "idle"
    /\ nMarker = <<>>
    /\ nCall = NoCall
    /\ nOutcomes = <<>>
    /\ nNextId = 0
    /\ nSaves = 0

TokenIdle ==
    /\ tRegistry = <<>>
    /\ tParts = <<>>
    /\ tDoc = <<>>
    /\ tMade = <<>>
    /\ tNodes = <<>>
    /\ tLast = "idle"

InitMarker ==
    /\ BlockIdle
    /\ SyncIdle
    /\ ClassifyIdle
    /\ BatchIdle
    /\ TokenIdle
    /\ NodeIdle
    /\ mRegistry \in Registries
    /\ mFile \in Documents
    /\ mPrev = mFile
    /\ mAssigned = <<>>
    /\ mLast = "load"
    /\ mPass = 0

\* inject identifiers into any non-empty set of the parsed markers
Inject(S, base) ==
    /\ mLast = "load"
    /\ mPass < MaxPasses
    /\ LET nodes == parseMarkers(mFile, mRegistry)
           assigned == [i \in S |-> IdFor(base, i)]
       IN  /\ S \subseteq 1..Len(nodes)
           /\ S # {}
           /\ mFile' = updateFileWithUUIDs(mFile, UpdatesFor(nodes, assigned))
           /\ mAssigned' = assigned
    /\ mPrev' = mFile
    /\ mLast' = "inject"
    /\ mPass' = mPass + 1
    /\ UNCHANGED <<mRegistry, nonMarkerVars>>

\* re-parse the rewritten document and inject the same identifiers into the
\* same markers (by position in the parse) again
Reinject ==
    /\ mLast \in {"inject", "reinject"}
    /\ mPass < MaxPasses
    /\ LET nodes == parseMarkers(mFile, mRegistry)
       IN  mFile' = updateFileWithUUIDs(mFile, UpdatesFor(nodes, mAssigned))
    /\ mPrev' = mFile
    /\ mLast' = "reinject"
    /\ mPass' = mPass + 1
    /\ UNCHANGED <<mRegistry, mAssigned, nonMarkerVars>>

\* a save: every marker without an identifier gets one from the store
SavePass(base) ==
    /\ mLast \in {"load", "save"}
    /\ mPass < MaxPasses
    /\ LET nodes == parseMarkers(mFile, mRegistry)
           missing == {i \in 1..Len(nodes) : nodes[i].uuid = Undefined}
           assigned == [i \in missing |-> IdFor(base, i)]
       IN  /\ mFile' = updateFileWithUUIDs(mFile, UpdatesFor(nodes, assigned))
           /\ mAssigned' = assigned
    /\ mPrev' = mFile
    /\ mLast' = "save"
    /\ mPass' = mPass + 1
    /\ UNCHANGED <<mRegistry, nonMarkerVars>>

NextMarker ==
    \/ \E S \in (SUBSET (1..MaxSegs)) \ {{}}, base \in IdBases : Inject(S, base)
    \/ Reinject
    \/ \E base \in IdBases : SavePass(base)

SpecMarker == InitMarker /\ [][NextMarker]_vars

-----------------------------------------------------------------------------
(* Claims about the shortcode parser and the identifier injector *)

NodesBefore == parseMarkers(mPrev, mRegistry)
NodesAfter == parseMarkers(mFile, mRegistry)

\* C1: when every marker of a document without identifiers is handed a
\* non-empty identifier without ">" and the document is rewritten, parsing
\* the result gives the same markers in the same order (code, kind, content),
\* each carrying exactly the identifier it was handed, so that no marker is
\* left without an identifier for a second save.
C1_SaveAssignsStableIds ==
    (/\ mLast = "save"
     /\ mPass = 1
     /\ \A i \in 1..Len(NodesBefore) : NodesBefore[i].uuid = Undefined)
    => /\ Len(NodesAfter) = Len(NodesBefore)
       /\ \A i \in 1..Len(NodesBefore) :
            /\ i <= Len(NodesAfter)
            /\ NodesAfter[i].shortcode = NodesBefore[i].shortcode
            /\ NodesAfter[i].type = NodesBefore[i].type
            /\ NodesAfter[i].content = NodesBefore[i].content
            /\ NodesAfter[i].uuid = mAssigned[i]

\* the document the claim C2 describes: walking the original document left to
\* right, each updated marker's span replaced by :::CODE<id> content ::: and
\* everything else copied
RECURSIVE Spliced(_, _, _, _, _)
Spliced(doc, nodes, assigned, i, from) ==
    IF i > Len(nodes) THEN SubSeq(doc, from + 1, Len(doc))
    ELSE IF i \in DOMAIN assigned
         THEN SubSeq(doc, from + 1, nodes[i].startOffset)
                  \o Colons \o nodes[i].shortcode \o <<"<">> \o assigned[i]
                  \o <<">", " ">> \o nodes[i].content \o <<" ">> \o Colons
                  \o Spliced(doc, nodes, assigned, i + 1, nodes[i].endOffset)
         ELSE Spliced(doc, nodes, assigned, i + 1, from)

\* C2: updateFileWithUUIDs returns the original document with each updated
\* marker's span replaced by :::CODE<id> content ::: and every symbol outside
\* the updated spans unchanged and in order; a marker before the first updated
\* one keeps its rawMatch at its original startOffset.
C2_OnlyUpdatedSpansChange ==
    mPass > 0 =>
        /\ mFile = Spliced(mPrev, NodesBefore, mAssigned, 1, 0)
        /\ \A i \in 1..Len(NodesBefore) :
             (\A u \in DOMAIN mAssigned : i < u) =>
                 SubSeq(mFile, NodesBefore[i].startOffset + 1, NodesBefore[i].endOffset)
                     = NodesBefore[i].rawMatch

\* C2 witness: only the later of two markers was rewritten, and the document
\* changed length.
C2_Witness ==
    /\ mLast = "inject"
    /\ DOMAIN mAssigned = {2}
    /\ Len(mFile) # Len(mPrev)
    /\ Len(NodesBefore) = 2

\* C3: injecting the same identifier into the same marker of the rewritten
\* document reproduces the rewritten document byte for byte.
C3_InjectionIdempotent ==
    (mLast = "reinject" /\ mPass = 2) => mFile = mPrev

-----------------------------------------------------------------------------
(* The codec applied to documents: embed, remove and extract *)

AnnTricky ==
    [uuid |-> <<"ann-", "1">>,
     kind |-> <<"claim">>,
     text |-> <<"a", "\n", "%", "%", "\n", Quote, Backslash, "n">>,
     start |-> 0, end |-> 8, lineStart |-> 1, lineEnd |-> 3,
     created |-> Iso(1), modified |-> Iso(1),
     createdBy |-> <<"user">>,
     confidence |-> 1,
     theory |-> Undefined,
     tags |-> <<>>,
     properties |-> [profile |-> <<"personal">>, notes |-> Undefined]]

RelOne ==
    [uuid |-> <<"rel-", "1">>,
     type |-> <<"supports">>,
     source |-> <<"ann-", "1">>,
     target |-> <<"ann-", "1">>,
     confidence |-> 1,
     created |-> Iso(1),
     createdBy |-> <<"user">>,
     bidirectional |-> FALSE]

BlockEmpty == createNewSemanticBlock(<<"T">>, <<>>, <<"n1">>, 0)

BlockFull ==
    [createNewSemanticBlock(<<"T", "\n", "%", "%", "semantic">>, <<AnnTricky>>, <<"n2">>, 1)
        EXCEPT !.relationships = <<RelOne>>]

Blocks == {BlockEmpty, BlockFull}

\* a block as it stands in a file
FileBlock(jsonText) ==
    SEMANTIC_BLOCK_START \o <<"\n">> \o jsonText \o <<"\n">> \o SEMANTIC_BLOCK_END

Heads == {<<>>, <<"abc", "\n">>, <<"abc", "\n", "\n">>, <<"abc">>}

Middles ==
    {<<>>,
     FileBlock(JSONstringify(BlockValue(BlockFull))),
     FileBlock(JSONstringify(BlockValue(BlockEmpty))) \o <<"\n">>
         \o FileBlock(JSONstringify(BlockValue(BlockFull))),
     FileBlock(<<"{", "oops">>),
     FileBlock(<<"{", "}">>),
     FileBlock(<<"7">>),
     FileBlock(<<"null">>),
     SEMANTIC_BLOCK_START \o <<" ", "\n">> \o JSONstringify(BlockValue(BlockEmpty)),
     SEMANTIC_BLOCK_START \o <<"x", "\n">> \o JSONstringify(BlockValue(BlockEmpty))
         \o <<"\n">> \o SEMANTIC_BLOCK_END}

Tails == {<<>>, <<"\n">>, <<"\n", "xyz", "\n">>, <<"\n", "xyz">>, <<"xyz">>}

BlockDocuments == {h \o m \o t : h \in Heads, m \in Middles, t \in Tails}

NotRun == [kind |-> "notrun"]

InitBlock ==
    /\ MarkerIdle
    /\ SyncIdle
    /\ ClassifyIdle
    /\ BatchIdle
    /\ TokenIdle
    /\ NodeIdle
    /\ bDoc \in BlockDocuments
    /\ bPrev = bDoc
    /\ bBlock = <<>>
    /\ bResult = NotRun
    /\ bLast = "load"
    /\ bOps = 0

Embed(block) ==
    /\ bResult = NotRun
    /\ bOps < MaxOps
    /\ bDoc' = embedSemanticBlock(bDoc, block)
    /\ bPrev' = bDoc
    /\ bBlock' = block
    /\ bLast' = "embed"
    /\ bOps' = bOps + 1
    /\ UNCHANGED <<bResult, nonBlockVars>>

Remove ==
    /\ bResult = NotRun
    /\ bOps < MaxOps
    /\ bDoc' = removeSemanticBlock(bDoc)
    /\ bPrev' = bDoc
    /\ bLast' = "remove"
    /\ bOps' = bOps + 1
    /\ UNCHANGED <<bBlock, bResult, nonBlockVars>>

Extract ==
    /\ bResult = NotRun
    /\ bResult' = extractSemanticBlock(bDoc)
    /\ UNCHANGED <<bDoc, bPrev, bBlock, bLast, bOps, nonBlockVars>>

NextBlock ==
    \/ \E block \in Blocks : Embed(block)
    \/ Remove
    \/ Extract

SpecBlock == InitBlock /\ [][NextBlock]_vars

-----------------------------------------------------------------------------
(* Claims about the semantic block codec *)

C8_RemoveOnlyTheBlock ==
    bLast = "remove" =>
        LET open == LineMatch(bPrev, SEMANTIC_BLOCK_START)
        IN  IF ~open.ok THEN bDoc = bPrev
            ELSE LET close == LineMatch(SubstringFrom(bPrev, open.index),
                                        SEMANTIC_BLOCK_END)
                 IN  close.ok =>
                        bDoc = TrimEnd(Substring(bPrev, 0, open.index)
                                   \o SubstringFrom(bPrev, open.index + close.end))

\* C9: extractSemanticBlock never raises, returns absent when there is no
\* start sentinel, no end sentinel after it, or when the text between them
\* does not decode to a SemanticBlock; whatever it returns is a structurally
\* complete SemanticBlock.
C9_ExtractAbsentOrCompleteBlock ==
    bResult # NotRun =>
        /\ bResult.kind \in {"null", "block"}
        /\ LineMatches(bDoc, SEMANTIC_BLOCK_START) = {} => bResult = Absent
        /\ bResult.kind = "block" => IsSemanticBlock(bResult.v)

-----------------------------------------------------------------------------
(* Reconciliation engine: src/semantic-block.ts *)

StartsWithAnn(id) == Len(id) >= 1 /\ id[1] = "ann-"

\* a || b on optional strings and on optional numbers
OrStr(a, b) == IF Truthy(a) THEN a ELSE b
OrNum(a, b) == IF a = UndefinedNum \/ a = 0 THEN b ELSE a

RECURSIVE NewlinesBefore(_, _)
NewlinesBefore(content, n) ==
    IF n <= 0 THEN 0
    ELSE NewlinesBefore(content, n - 1) + (IF content[n] = "\n" THEN 1 ELSE 0)

\* a loop bounded by i <= offset: the character at the offset is counted too
lineNumberInclusive(content, offset) ==
    IF offset = UndefinedNum THEN 1
    ELSE 1 + NewlinesBefore(content, IF offset + 1 < Len(content) THEN offset + 1 ELSE Len(content))

\* the loop runs while i < offset && i < content.length; with an undefined
\* offset the comparison is false and the loop body never runs
getLineNumberFromOffset(content, offset) ==
    IF offset = UndefinedNum THEN 1
    ELSE 1 + NewlinesBefore(content, IF offset < Len(content) THEN offset ELSE Len(content))

getLineNumbers(content, startOffset, endOffset) ==
    [lineStart |-> getLineNumberFromOffset(content, startOffset),
     lineEnd |-> getLineNumberFromOffset(content, endOffset)]

classificationToAnnotation(classification, fileContent, now) ==
    LET lines == IF Truthy(fileContent)
                 THEN getLineNumbers(fileContent, classification.start_offset,
                                     classification.end_offset)
                 ELSE [lineStart |-> 0, lineEnd |-> 0]
    IN  [uuid |-> IF StartsWithAnn(classification.id) THEN classification.id
                  ELSE <<"ann-">> \o classification.id,
         kind |-> classification.type,
         text |-> classification.content,
         start |-> classification.start_offset,
         end |-> classification.end_offset,
         lineStart |-> lines.lineStart,
         lineEnd |-> lines.lineEnd,
         created |-> OrStr(classification.tagged_at, Iso(now)),
         modified |-> OrStr(classification.tagged_at, Iso(now)),
         createdBy |-> OrStr(classification.tagged_by, <<"user">>),
         confidence |-> OrNum(classification.confidence, 1),
         theory |-> Undefined,
         tags |-> <<>>,
         properties |-> [profile |-> classification.bundle_profile,
                         notes |-> classification.notes]]

annotationToClassification(annotation, sourceFile, profile) ==
    [id |-> IF StartsWithAnn(annotation.uuid) THEN Tail(annotation.uuid)
            ELSE annotation.uuid,
     content |-> annotation.text,
     source_file |-> sourceFile,
     start_offset |-> annotation.start,
     end_offset |-> annotation.end,
     type |-> annotation.kind,
     bundle_profile |-> OrStr(annotation.properties.profile, profile),
     tagged_by |-> annotation.createdBy,
     tagged_at |-> annotation.created,
     confidence |-> annotation.confidence,
     notes |-> annotation.properties.notes]

\* findIndex: the first entry with the annotation's uuid, 0 when there is none
FindIndex(annotations, uuid) ==
    LET hits == {i \in 1..Len(annotations) : annotations[i].uuid = uuid}
    IN  IF hits = {} THEN 0 ELSE Min(hits)

\* the variant without the lookup: the annotation is always pushed
upsertAppending(block, annotation, now) ==
    [block EXCEPT !.annotations = Append(@, annotation), !.modified = Iso(now)]

upsertAnnotation(block, annotation, now) ==
    LET existingIndex == FindIndex(block.annotations, annotation.uuid)
    IN  [block EXCEPT
            !.annotations =
                IF existingIndex > 0
                THEN [@ EXCEPT ![existingIndex] = [annotation EXCEPT !.modified = Iso(now)]]
                ELSE Append(@, annotation),
            !.modified = Iso(now)]

\* the variant whose filter keeps the matching entries instead of dropping them
removeKeepingMatch(block, annotationUuid, now) ==
    LET Keep(a) == a.uuid = annotationUuid
    IN  [block EXCEPT !.annotations = SelectSeq(@, Keep), !.modified = Iso(now)]

removeAnnotation(block, annotationUuid, now) ==
    LET Keep(a) == a.uuid # annotationUuid
    IN  [block EXCEPT !.annotations = SelectSeq(@, Keep), !.modified = Iso(now)]

\* the variant that keeps what the block held and adds the store's rows
syncKeepingBlockOnly(block, classifications, fileContent, now) ==
    [block EXCEPT
        !.annotations = @ \o [i \in 1..Len(classifications) |->
            classificationToAnnotation(classifications[i], fileContent, now)],
        !.modified = Iso(now)]

syncClassificationsToBlock(block, classifications, fileContent, now) ==
    [block EXCEPT
        !.annotations = [i \in 1..Len(classifications) |->
            classificationToAnnotation(classifications[i], fileContent, now)],
        !.modified = Iso(now)]

\* the variant that compares against the store's ids as stored
findUnsyncedByStoredId(block, dbClassifications) ==
    LET dbIds == {dbClassifications[i].id : i \in 1..Len(dbClassifications)}
        Unsynced(annotation) == annotation.uuid \notin dbIds
    IN  SelectSeq(block.annotations, Unsynced)

findUnsyncedAnnotations(block, dbClassifications) ==
    LET dbIds == {IF StartsWithAnn(dbClassifications[i].id) THEN dbClassifications[i].id
                  ELSE <<"ann-">> \o dbClassifications[i].id :
                     i \in 1..Len(dbClassifications)}
        Unsynced(annotation) == annotation.uuid \notin dbIds
    IN  SelectSeq(block.annotations, Unsynced)

-----------------------------------------------------------------------------
(* Reconciliation state machine: one block, the store's rows for its file *)

\* an annotation as a block read from a file may hold it
AnnWith(id) ==
    [AnnTricky EXCEPT !.uuid = id, !.text = <<"a">>, !.end = 1, !.lineEnd = 1]

\* a row of getClassificationsForFile
RowWith(id, startOffset, confidence) ==
    [id |-> id,
     content |-> <<"a">>,
     source_file |-> <<"f">>,
     start_offset |-> startOffset,
     end_offset |-> startOffset + 1,
     type |-> <<"claim">>,
     bundle_profile |-> <<"personal">>,
     tagged_by |-> <<"u">>,
     tagged_at |-> Iso(0),
     confidence |-> confidence,
     notes |-> Undefined]

\* block annotation ids: prefixed, and one written without the prefix
BlockAnnotations == {AnnWith(<<"ann-", "1">>), AnnWith(<<"ann-", "2">>), AnnWith(<<"1">>)}

\* store rows: raw ids, one id that already carries the prefix, and a row
\* whose offsets lie past the end of the text
StoreRows == {RowWith(<<"1">>, 0, 1), RowWith(<<"2">>, 2, 0), RowWith(<<"ann-", "2">>, 5, 1), RowWith(<<"3">>, 9, 1)}

\* what upsertAnnotation is handed: the annotations above, and an edited ann-1
UpsertInputs == BlockAnnotations \cup {[AnnWith(<<"ann-", "1">>) EXCEPT !.text = <<"z">>, !.kind = <<"evidence">>]}

\* both endpoints of every relationship name an annotation of the block
EndpointsPresent(block) ==
    \A i \in 1..Len(block.relationships) :
        /\ \E j \in 1..Len(block.annotations) : block.annotations[j].uuid = block.relationships[i].source
        /\ \E j \in 1..Len(block.annotations) : block.annotations[j].uuid = block.relationships[i].target

UpToTwo(S) == {<<>>} \cup {<<a>> : a \in S} \cup {<<a, b>> : a \in S, b \in S}

SyncTexts == {<<>>, <<"a", "\n", "b", "c", "\n", "d">>}

InitSync ==
    /\ MarkerIdle
    /\ BlockIdle
    /\ ClassifyIdle
    /\ BatchIdle
    /\ TokenIdle
    /\ NodeIdle
    /\ \E anns \in UpToTwo(BlockAnnotations), rels \in {<<>>, <<RelOne>>} :
          /\ sBlock = [createNewSemanticBlock(<<"T">>, anns, <<"n1">>, 0) EXCEPT !.relationships = rels]
          /\ EndpointsPresent(sBlock)
    /\ sPrev = sBlock
    /\ sStore \in UpToTwo(StoreRows)
    /\ sText \in SyncTexts
    /\ sOut = <<>>
    /\ sLast = "load"
    /\ sNow = 0

Sync ==
    /\ sNow < MaxSyncOps
    /\ sBlock' = syncClassificationsToBlock(sBlock, sStore, sText, sNow + 1)
    /\ sPrev' = sBlock
    /\ sLast' = "sync"
    /\ sNow' = sNow + 1
    /\ UNCHANGED <<sStore, sText, sOut, nonSyncVars>>

FindUnsynced ==
    /\ sNow < MaxSyncOps
    /\ sOut' = findUnsyncedAnnotations(sBlock, sStore)
    /\ sPrev' = sBlock
    /\ sLast' = "find"
    /\ sNow' = sNow + 1
    /\ UNCHANGED <<sBlock, sStore, sText, nonSyncVars>>

Upsert(annotation) ==
    /\ sNow < MaxSyncOps
    /\ sBlock' = upsertAnnotation(sBlock, annotation, sNow + 1)
    /\ sPrev' = sBlock
    /\ sLast' = "upsert"
    /\ sNow' = sNow + 1
    /\ UNCHANGED <<sStore, sText, sOut, nonSyncVars>>

RemoveAnn(annotationUuid) ==
    /\ sNow < MaxSyncOps
    /\ sBlock' = removeAnnotation(sBlock, annotationUuid, sNow + 1)
    /\ sPrev' = sBlock
    /\ sLast' = "removeAnn"
    /\ sNow' = sNow + 1
    /\ UNCHANGED <<sStore, sText, sOut, nonSyncVars>>

NextSync ==
    \/ Sync
    \/ FindUnsynced
    \/ \E a \in UpsertInputs : Upsert(a)
    \/ \E a \in BlockAnnotations : RemoveAnn(a.uuid)

SpecSync == InitSync /\ [][NextSync]_vars

-----------------------------------------------------------------------------
(* Claims about reconciliation *)

Ids(annotations) == {annotations[i].uuid : i \in 1..Len(annotations)}

\* the 'ann-' prefixed form of a store identifier
Prefixed(id) == IF StartsWithAnn(id) THEN id ELSE <<"ann-">> \o id

\* an identifier with the 'ann-' prefix stripped
Raw(id) == IF StartsWithAnn(id) THEN Tail(id) ELSE id

\* C4: after syncClassificationsToBlock, whatever the block held before, the
\* block's annotation-id set is exactly the set of the store records'
\* identifiers in 'ann-' prefixed form: block-only annotations are dropped and
\* every store record appears.
C4_SyncReplacesWithStoreIds ==
    sLast = "sync" =>
        Ids(sBlock.annotations) = {Prefixed(sStore[i].id) : i \in 1..Len(sStore)}

\* C4 witness: a sync over a block that held an annotation the store does not
\* know, with a store row the block did not hold.
C4_Witness ==
    /\ sLast = "sync"
    /\ sStore # <<>>
    /\ Ids(sPrev.annotations) \ Ids(sBlock.annotations) # {}
    /\ Ids(sBlock.annotations) \ Ids(sPrev.annotations) # {}

\* C5: findUnsyncedAnnotations returns exactly the block's annotations, in
\* block order, whose identifier equals no store identifier once the 'ann-'
\* prefix is normalized on both sides; for block ids {ann-1, ann-2} and the
\* single raw store id 1 it returns exactly the annotation ann-2.
C5_UnsyncedModuloPrefix ==
    sLast = "find" =>
        LET storeIds == {Raw(sStore[i].id) : i \in 1..Len(sStore)}
            NoMatch5(a) == Raw(a.uuid) \notin storeIds
        IN  sOut = SelectSeq(sBlock.annotations, NoMatch5)

-----------------------------------------------------------------------------
(* classifySelection: src/unnamed/part_000, with createClassification and   *)
(* validateClassification of src/semantic-block.ts                          *)

\* the offset at which line `line` (0-based) starts, scanning from `from`
RECURSIVE LineStartOffset(_, _, _)
LineStartOffset(text, line, from) ==
    IF line = 0 THEN from
    ELSE LET breaks == {j \in (from + 1)..Len(text) : text[j] = "\n"}
         IN  IF breaks = {} THEN Len(text) + 1
             ELSE LineStartOffset(text, line - 1, Min(breaks))

getOffsetFromPosition(text, pos) == LineStartOffset(text, pos.line, 0) + pos.ch

createClassification(content, type, profile, sourceFile, startOffset, endOffset, taggedBy, confidence, notes, now) ==
    [id |-> <<>>,
     content |-> content,
     type |-> type,
     profile |-> profile,
     sourceFile |-> sourceFile,
     startOffset |-> startOffset,
     endOffset |-> endOffset,
     taggedBy |-> taggedBy,
     taggedAt |-> Iso(now),
     confidence |-> confidence,
     notes |-> notes]

\* the notice validateClassification shows; "" when it returns true
ValidationNotice(classification) ==
    IF ~Truthy(classification.content) \/ Trim(classification.content) = <<>>
        THEN "Cannot classify empty text"
    ELSE IF ~Truthy(classification.type)
        THEN "No classification type specified"
    ELSE IF classification.startOffset < 0 \/ classification.endOffset < 0
        THEN "Invalid text offsets"
    ELSE IF classification.startOffset >= classification.endOffset
        THEN "Invalid text range"
    ELSE ""

validateClassification(classification) == ValidationNotice(classification) = ""

\* an EpistemicClassification read through the DatabaseClassification
\* interface, as classificationToAnnotation does with the object
\* classifySelection hands it: the members it looks up under names the
\* object does not have are undefined
ReadAsDatabaseClassification(c) ==
    [id |-> c.id,
     content |-> c.content,
     source_file |-> Undefined,
     start_offset |-> UndefinedNum,
     end_offset |-> UndefinedNum,
     type |-> c.type,
     bundle_profile |-> Undefined,
     tagged_by |-> Undefined,
     tagged_at |-> Undefined,
     confidence |-> c.confidence,
     notes |-> c.notes]

\* block.annotations.findIndex raises unless annotations is an array
HasAnnotationsArray(v) == Member(v, "annotations").t = "arr"

\* JavaScript truthiness of a parsed value
JTruthy(v) ==
    CASE v.t \in {"null", "undefined"} -> FALSE
      [] v.t = "num" -> v.n # 0
      [] v.t = "str" -> v.s # <<>>
      [] v.t = "bool" -> v.b
      [] OTHER -> TRUE

\* a compensating catch: the record just committed is deleted again
storeRolledBack(store, id) ==
    LET Other(r) == r.id # id
    IN  SelectSeq(store, Other)

\* a write that re-reads the file's block and keeps the annotations it finds
\* there beside its own
blockMergedWithFile(block, content) ==
    LET r == extractSemanticBlock(content)
        mine == {block.annotations[i].uuid : i \in 1..Len(block.annotations)}
        Foreign(a) == a.uuid \notin mine
    IN  IF r.kind = "block" /\ Member(r.v, "annotations").t = "arr"
        THEN [block EXCEPT !.annotations =
                 @ \o SelectSeq(ValueBlock(r.v).annotations, Foreign)]
        ELSE block

\* writeSemanticBlockToFile embeds the block it was handed, whatever block
\* the content it has just read holds
blockToWrite(block, content) == block

\* what the inner catch leaves in the store: it only logs
storeAfterBlockError(store, id) == store

-----------------------------------------------------------------------------
(* classifySelection as a process: one step per await *)

Procs == {"p1", "p2"}

NoticeOk == "Classified"
NoticeFailed == "Failed to save classification"

DocBody == <<"a", "\n", "b", " ", "c">>

StoredAnnotation == AnnWith(<<"ann-", "u0">>)

\* a block with an annotation whose end sentinel is missing
UnclosedBlock ==
    SEMANTIC_BLOCK_START \o <<"\n">> \o JSONstringify(BlockValue(
        createNewSemanticBlock(<<"f">>, <<StoredAnnotation>>, <<"n0">>, 0)))

\* the file as the vault holds it when the calls start
ClassifyFiles ==
    {DocBody,
     DocBody \o <<"\n", "\n">> \o FileBlock(JSONstringify(BlockValue(
         createNewSemanticBlock(<<"f">>, <<StoredAnnotation>>, <<"n0">>, 0)))),
     DocBody \o <<"\n", "\n">> \o FileBlock(<<"{", "}">>),
     DocBody \o <<"\n", "\n">> \o FileBlock(<<"{", "oops">>),
     DocBody \o <<"\n", "\n">> \o UnclosedBlock}

\* editor selections: "b" on the second line, and a blank
Selections ==
    {[from |-> [line |-> 1, ch |-> 0], to |-> [line |-> 1, ch |-> 1]],
     [from |-> [line |-> 1, ch |-> 1], to |-> [line |-> 1, ch |-> 2]]}

\* readBefore and wroteAfter record history: the calls whose block write had
\* completed when this call read the block, and when it wrote its own
NoLocal ==
    [cls |-> <<>>, fullText |-> <<>>, block |-> <<>>, content |-> <<>>,
     blockRead |-> FALSE, blockError |-> FALSE,
     readBefore |-> {}, wroteAfter |-> {}, wrote |-> FALSE]

\* the calls whose vault.modify has completed
Writers == {q \in Procs : kLocal[q].wrote}

InitClassify ==
    /\ MarkerIdle
    /\ BlockIdle
    /\ SyncIdle
    /\ BatchIdle
    /\ TokenIdle
    /\ NodeIdle
    /\ kFile \in ClassifyFiles
    /\ kStore = <<>>
    /\ kPc = [p \in Procs |-> "idle"]
    /\ kLocal = [p \in Procs |-> NoLocal]
    /\ kNotice = [p \in Procs |-> <<>>]
    /\ kClock = 0

\* the call ends: pc "done" with one more notice
Finish(p, notice) ==
    /\ kPc' = [kPc EXCEPT ![p] = "done"]
    /\ kNotice' = [kNotice EXCEPT ![p] = Append(@, notice)]

\* view.file is null
NoFile(p) ==
    /\ kPc[p] = "idle"
    /\ Finish(p, "No active file")
    /\ UNCHANGED <<kFile, kStore, kLocal, kClock, nonClassifyVars>>

\* from the entry up to the await on saveClassification
Begin(p, sel) ==
    /\ kPc[p] = "idle"
    /\ LET fullText == kFile
           startOffset == getOffsetFromPosition(fullText, sel.from)
           endOffset == getOffsetFromPosition(fullText, sel.to)
           classification ==
               createClassification(Substring(fullText, startOffset, endOffset),
                   <<"claim">>, <<"personal">>, <<"f">>, startOffset, endOffset,
                   <<"u">>, 1, Undefined, kClock + 1)
       IN  IF ~validateClassification(classification)
           THEN /\ Finish(p, ValidationNotice(classification))
                /\ UNCHANGED kLocal
           ELSE /\ kPc' = [kPc EXCEPT ![p] = "saving"]
                /\ kLocal' = [kLocal EXCEPT ![p].cls = classification,
                                            ![p].fullText = fullText]
                /\ UNCHANGED kNotice
    /\ kClock' = kClock + 1
    /\ UNCHANGED <<kFile, kStore, nonClassifyVars>>

\* saveClassification commits and returns the new statement id
SaveCommit(p) ==
    /\ kPc[p] = "saving"
    /\ LET id == <<"u", ToString(Len(kStore) + 1)>>
       IN  /\ kStore' = Append(kStore, [kLocal[p].cls EXCEPT !.id = id])
           /\ kLocal' = [kLocal EXCEPT ![p].cls.id = id]
    /\ kPc' = [kPc EXCEPT ![p] = "reading"]
    /\ UNCHANGED <<kFile, kNotice, kClock, nonClassifyVars>>

\* saveClassification rolls back and rethrows: the outer catch reports it
SaveFail(p) ==
    /\ kPc[p] = "saving"
    /\ Finish(p, NoticeFailed)
    /\ UNCHANGED <<kFile, kStore, kLocal, kClock, nonClassifyVars>>

\* readSemanticBlockFromFile, classificationToAnnotation, upsertAnnotation and
\* writeSemanticBlockToFile up to its await on vault.read
ReadBlock(p) ==
    /\ kPc[p] = "reading"
    /\ LET existingBlock == extractSemanticBlock(kFile)
           found == existingBlock.kind = "block" /\ JTruthy(existingBlock.v)
           now == kClock + 1
       IN  IF found /\ ~HasAnnotationsArray(existingBlock.v)
           THEN \* upsertAnnotation raises a TypeError: the inner catch
                /\ kStore' = storeAfterBlockError(kStore, kLocal[p].cls.id)
                /\ kLocal' = [kLocal EXCEPT ![p].blockError = TRUE]
                /\ Finish(p, NoticeOk)
           ELSE LET semanticBlock ==
                        IF found THEN ValueBlock(existingBlock.v)
                        ELSE createNewSemanticBlock(<<"f">>, <<>>,
                                 <<"n", ToString(now)>>, now)
                    annotation ==
                        classificationToAnnotation(
                            ReadAsDatabaseClassification(kLocal[p].cls),
                            kLocal[p].fullText, now)
                    updated == upsertAnnotation(semanticBlock, annotation, now)
                IN  /\ kLocal' = [kLocal EXCEPT
                                     ![p].block = [updated EXCEPT !.modified = Iso(now)],
                                     ![p].blockRead = TRUE,
                                     ![p].readBefore = Writers]
                    /\ kPc' = [kPc EXCEPT ![p] = "writeRead"]
                    /\ UNCHANGED <<kStore, kNotice>>
    /\ kClock' = kClock + 1
    /\ UNCHANGED <<kFile, nonClassifyVars>>

\* writeSemanticBlockToFile: vault.read returns the current content
WriteRead(p) ==
    /\ kPc[p] = "writeRead"
    /\ kLocal' = [kLocal EXCEPT ![p].content = kFile]
    /\ kPc' = [kPc EXCEPT ![p] = "modify"]
    /\ UNCHANGED <<kFile, kStore, kNotice, kClock, nonClassifyVars>>

\* writeSemanticBlockToFile: embed and vault.modify; then the success notice
WriteModify(p) ==
    /\ kPc[p] = "modify"
    /\ kFile' = embedSemanticBlock(kLocal[p].content,
                                   blockToWrite(kLocal[p].block, kLocal[p].content))
    /\ kLocal' = [kLocal EXCEPT ![p].wrote = TRUE, ![p].wroteAfter = Writers]
    /\ Finish(p, NoticeOk)
    /\ UNCHANGED <<kStore, kClock, nonClassifyVars>>

\* a vault.read or vault.modify of the block write raises: the inner catch
\* logs, and the success notice follows
BlockFail(p) ==
    /\ kPc[p] \in {"reading", "writeRead", "modify"}
    /\ kStore' = storeAfterBlockError(kStore, kLocal[p].cls.id)
    /\ kLocal' = [kLocal EXCEPT ![p].blockError = TRUE]
    /\ Finish(p, NoticeOk)
    /\ UNCHANGED <<kFile, kClock, nonClassifyVars>>

NextClassify ==
    \/ \E p \in Procs : NoFile(p)
    \/ \E p \in Procs, sel \in Selections : Begin(p, sel)
    \/ \E p \in Procs : SaveCommit(p)
    \/ \E p \in Procs : SaveFail(p)
    \/ \E p \in Procs : ReadBlock(p)
    \/ \E p \in Procs : WriteRead(p)
    \/ \E p \in Procs : WriteModify(p)
    \/ \E p \in Procs : BlockFail(p)

SpecClassify == InitClassify /\ [][NextClassify]_vars

-----------------------------------------------------------------------------
(* Claims about classifySelection *)

\* the annotation ids of the block a document holds (none without a block)
FileAnnotationIds(content) ==
    LET r == extractSemanticBlock(content)
    IN  IF r.kind = "block"
        THEN LET anns == ListOf(Member(r.v, "annotations"))
             IN  {StrOf(Member(anns[i], "uuid")) : i \in 1..Len(anns)}
        ELSE {}

StoredTimes(id) == Cardinality({i \in 1..Len(kStore) : kStore[i].id = id})

\* C10: classifySelection writes the store first and the block second with no
\* transaction over both: a call is in its block phase only with its record
\* committed, and once the block read or write has failed the record is still
\* in the store exactly once, the call has reported success and nothing else,
\* and the document holds no annotation for that record.
C10_StoreFirstNoRollback ==
    \A p \in Procs :
        /\ kPc[p] \in {"reading", "writeRead", "modify"}
              => StoredTimes(kLocal[p].cls.id) = 1
        /\ kLocal[p].blockError =>
              /\ kPc[p] = "done"
              /\ StoredTimes(kLocal[p].cls.id) = 1
              /\ kNotice[p] = <<NoticeOk>>
              /\ Prefixed(kLocal[p].cls.id) \notin FileAnnotationIds(kFile)

\* C10 witness: a call whose block write failed after its block read: its
\* record is in the store, success was reported, the document has a block
\* and the block has no annotation for the record.
C10_Witness ==
    \E p \in Procs :
        /\ kLocal[p].blockError
        /\ kLocal[p].blockRead
        /\ kPc[p] = "done"
        /\ StoredTimes(kLocal[p].cls.id) = 1
        /\ kNotice[p] = <<NoticeOk>>
        /\ extractSemanticBlock(kFile).kind = "block"
        /\ Prefixed(kLocal[p].cls.id) \notin FileAnnotationIds(kFile)

\* C11: no lock and no version check: when two classifySelection calls on
\* the same file both read the block before either writes it, the block the
\* file finally holds is the one written last and lacks the annotation of the
\* other call, although both records are in the store.
C11_LastWriteWins ==
    \A p \in Procs : \A q \in Procs \ {p} :
        (/\ kLocal[p].wrote /\ kLocal[q].wrote
         /\ kLocal[p].readBefore = {} /\ kLocal[q].readBefore = {}
         /\ q \in kLocal[p].wroteAfter)
        => /\ extractSemanticBlock(kFile) =
                  [kind |-> "block", v |-> BlockValue(kLocal[p].block)]
           /\ Prefixed(kLocal[p].cls.id) \in FileAnnotationIds(kFile)
           /\ Prefixed(kLocal[q].cls.id) \notin FileAnnotationIds(kFile)
           /\ StoredTimes(kLocal[p].cls.id) = 1
           /\ StoredTimes(kLocal[q].cls.id) = 1

\* C11 witness: both calls read the block of a file that already held one,
\* then both wrote; the file holds the later writer's block only.
C11_Witness ==
    \E p \in Procs : \E q \in Procs \ {p} :
        /\ kLocal[p].wrote /\ kLocal[q].wrote
        /\ kLocal[p].readBefore = {} /\ kLocal[q].readBefore = {}
        /\ q \in kLocal[p].wroteAfter
        /\ StoredAnnotation.uuid \in FileAnnotationIds(kFile)
        /\ Prefixed(kLocal[q].cls.id) \notin FileAnnotationIds(kFile)
        /\ StoredTimes(kLocal[q].cls.id) = 1

\* C14: upsertAnnotation replaces, in place, the first entry that has the
\* annotation's id by the annotation with modified set to the time of the
\* call, the length unchanged; when no entry has the id it appends the
\* annotation and the length grows by one; every other entry keeps its value
\* and its position, block.modified is set to the time of the call and the
\* block's other members are left alone
C14_UpsertReplacesOrAppends ==
    [][\A a \in UpsertInputs : Upsert(a) =>
        LET old == sBlock.annotations
            new == sBlock'.annotations
            hits == {i \in 1..Len(old) : old[i].uuid = a.uuid}
        IN  /\ IF hits # {}
                  THEN /\ Len(new) = Len(old)
                       /\ \E k \in hits :
                             /\ new[k] = [a EXCEPT !.modified = Iso(sNow')]
                             /\ \A i \in (1..Len(old)) \ {k} : new[i] = old[i]
                  ELSE /\ Len(new) = Len(old) + 1
                       /\ new = Append(old, a)
            /\ sBlock'.modified = Iso(sNow')
            /\ sBlock'.modified # sBlock.modified
            /\ [sBlock' EXCEPT !.annotations = old, !.modified = sBlock.modified] = sBlock]_vars

\* an upsert replaced the second entry of a two-entry block by an edited
\* annotation with a later modified time, the first entry untouched
C14_Witness ==
    /\ sLast = "upsert"
    /\ Len(sPrev.annotations) = 2
    /\ Len(sBlock.annotations) = 2
    /\ sBlock.annotations[1] = sPrev.annotations[1]
    /\ sPrev.annotations[2].uuid = <<"ann-", "1">>
    /\ sBlock.annotations[2].uuid = <<"ann-", "1">>
    /\ sBlock.annotations[2].text = <<"z">>
    /\ sPrev.annotations[2].text = <<"a">>
    /\ sBlock.annotations[2].modified = Iso(2)
    /\ sBlock.modified = Iso(2)

\* an upsert appended an annotation whose id the block did not hold
C14_WitnessAppend ==
    /\ sLast = "upsert"
    /\ Len(sPrev.annotations) = 1
    /\ sBlock.annotations = Append(sPrev.annotations, AnnWith(<<"ann-", "2">>))

NewlinesBelow(content, offset) ==
    Cardinality({i \in 0..(Len(content) - 1) : i < offset /\ content[i + 1] = "\n"})

\* C20: the line numbers syncClassificationsToBlock gets from getLineNumbers
\* over a non-empty text are, for the start and for the end offset each on
\* its own, 1 + the number of newlines at indices strictly below the offset
\* (an offset past the end counts the whole text): at least 1, 1 at offset
\* 0, and 1, 2, 3 at offsets 0, 2, 5 of 'a\nbc\nd'
C20_LineNumberCountsNewlinesBelow ==
    (sLast = "sync" /\ sText # <<>>) =>
        \A i \in 1..Len(sStore) :
            LET a == sBlock.annotations[i]
                r == sStore[i]
            IN  /\ a.lineStart = 1 + NewlinesBelow(sText, r.start_offset)
                /\ a.lineEnd = 1 + NewlinesBelow(sText, r.end_offset)
                /\ a.lineStart >= 1
                /\ r.start_offset = 0 => a.lineStart = 1
                /\ (sText = <<"a", "\n", "b", "c", "\n", "d">> /\ r.start_offset = 2) => a.lineStart = 2
                /\ (sText = <<"a", "\n", "b", "c", "\n", "d">> /\ r.start_offset = 5) => a.lineStart = 3

\* a sync over 'a\nbc\nd' with a row at offsets [0, 1), the newline at index
\* 1 not counted for either, and a row past the end of the text
C20_Witness ==
    /\ sLast = "sync"
    /\ sText = <<"a", "\n", "b", "c", "\n", "d">>
    /\ Len(sStore) = 2
    /\ sStore[1].start_offset = 0
    /\ sStore[1].end_offset = 1
    /\ sBlock.annotations[1].lineStart = 1
    /\ sBlock.annotations[1].lineEnd = 1
    /\ sStore[2].start_offset = 9
    /\ sBlock.annotations[2].lineStart = 3
    /\ sBlock.annotations[2].lineEnd = 3

\* C13: the 'ann-' prefix is added and stripped exactly and reversibly for
\* every identifier: after syncClassificationsToBlock each annotation converts
\* back to the identifier of the store record it was made from, store records
\* with different identifiers give annotations with different identifiers,
\* and every annotation of the block converted to a store record and back
\* has its identifier again
C13_PrefixReversible ==
    sLast = "sync" =>
        /\ Len(sBlock.annotations) = Len(sStore)
        /\ \A i \in 1..Len(sStore) :
              annotationToClassification(sBlock.annotations[i], <<"f">>, <<"personal">>).id = sStore[i].id
        /\ \A i \in 1..Len(sStore) : \A j \in 1..Len(sStore) :
              sStore[i].id # sStore[j].id => sBlock.annotations[i].uuid # sBlock.annotations[j].uuid
        /\ \A i \in 1..Len(sPrev.annotations) :
              LET a == sPrev.annotations[i]
              IN  classificationToAnnotation(annotationToClassification(a, <<"f">>, <<"personal">>), sText, sNow).uuid = a.uuid

-----------------------------------------------------------------------------
(* DatabaseService.saveClassification (src/database.ts) and the batch       *)
(* autoClassifyDocument (src/unnamed/part_000).  The store is the committed *)
(* rows plus the rows of the one open transaction.                          *)

\* epistemic.types: the (name, bundle_profile) pairs that exist
TypesTable == {<<<<"claim">>, <<"personal">>>>}

\* INSERT INTO epistemic.statements ... RETURNING id
statementRow(id, classification) ==
    [id |-> id,
     content |-> classification.content,
     source_file |-> classification.sourceFile,
     start_offset |-> classification.startOffset,
     end_offset |-> classification.endOffset,
     bundle_profile |-> classification.profile]

\* INSERT INTO epistemic.statement_types
linkRow(statementId, classification) ==
    [statement_id |-> statementId,
     type |-> classification.type,
     confidence |-> classification.confidence,
     tagged_by |-> classification.taggedBy]

\* COMMIT: the transaction's rows become committed rows
commitTx(db, tx) ==
    [statements |-> db.statements \cup tx.statements, links |-> db.links \cup tx.links]

\* a store without transaction: the statement row stays after the failure
rollbackKeepingStatements(db, tx) ==
    [statements |-> db.statements \cup tx.statements, links |-> db.links]

\* ROLLBACK: the transaction's rows are discarded
rollbackTx(db, tx) == db

\* a catch that gives up the batch: the loop is left at its end
abortBatch(index, n) == n + 1

\* the catch inside the for loop: the loop goes on with the next item
afterItemError(index, n) == index + 1

\* what processAndClassifyDocument may return
ItemGood == [text |-> <<"b">>, category |-> <<"claim">>, startOffset |-> 2, endOffset |-> 3]
ItemUnknownType == [text |-> <<"c">>, category |-> <<"zzz">>, startOffset |-> 4, endOffset |-> 5]
ItemBlank == [text |-> <<" ">>, category |-> <<"claim">>, startOffset |-> 3, endOffset |-> 4]

BatchItems == {ItemGood, ItemUnknownType, ItemBlank}

ItemLists == UNION {[1..n -> BatchItems] : n \in 0..MaxItems}

\* the confidence autoClassifyDocument passes
AIConfidence == "0.8"

InitBatch ==
    /\ TokenIdle
    /\ NodeIdle
    /\ MarkerIdle
    /\ BlockIdle
    /\ SyncIdle
    /\ ClassifyIdle
    /\ dItems \in ItemLists
    /\ dIndex = 1
    /\ dSaved = 0
    /\ dAttempts = <<>>
    /\ dPc = "start"
    /\ dCls = <<>>
    /\ dDb = NoRows
    /\ dTx = NoRows
    /\ dBefore = NoRows
    /\ dOutcomes = <<>>
    /\ dNotices = <<>>
    /\ dNextId = 0

NoticeNoFile == <<"No active file">>
NoticeAnalyzing == <<"Analyzing document with AI...">>
NoticeNoneFound == <<"No classifications found">>
NoticeCount(n) == <<"Auto-classified ", ToString(n), " sections">>

Returned(id) == [kind |-> "returned", id |-> id, before |-> dBefore, after |-> commitTx(dDb, dTx)]
Raised(after) == [kind |-> "raised", id |-> <<>>, before |-> dBefore, after |-> after]

\* autoClassifyDocument without an active file
BatchNoFile ==
    /\ dPc = "start"
    /\ dNotices' = Append(dNotices, NoticeNoFile)
    /\ dPc' = "done"
    /\ UNCHANGED <<dItems, dIndex, dSaved, dAttempts, dCls, dDb, dTx, dBefore, dOutcomes, dNextId, nonBatchVars>>

\* processAndClassifyDocument has returned dItems
BatchStart ==
    /\ dPc = "start"
    /\ IF dItems = <<>>
          THEN dNotices' = dNotices \o <<NoticeAnalyzing, NoticeNoneFound>> /\ dPc' = "done"
          ELSE dNotices' = Append(dNotices, NoticeAnalyzing) /\ dPc' = "item"
    /\ UNCHANGED <<dItems, dIndex, dSaved, dAttempts, dCls, dDb, dTx, dBefore, dOutcomes, dNextId, nonBatchVars>>

\* one turn of the for loop up to the call of saveClassification
ItemBegin ==
    /\ dPc = "item"
    /\ dIndex <= Len(dItems)
    /\ LET item == dItems[dIndex]
           classification == createClassification(item.text, item.category, <<"personal">>, <<"f.md">>, item.startOffset, item.endOffset, <<"u">>, AIConfidence, Undefined, dIndex)
       IN  /\ dAttempts' = Append(dAttempts, dIndex)
           /\ IF validateClassification(classification)
                 THEN /\ dCls' = classification
                      /\ dPc' = "connect"
                      /\ UNCHANGED <<dIndex, dNotices>>
                 ELSE /\ dNotices' = Append(dNotices, <<ValidationNotice(classification)>>)
                      /\ dIndex' = dIndex + 1
                      /\ UNCHANGED <<dCls, dPc>>
    /\ UNCHANGED <<dItems, dSaved, dDb, dTx, dBefore, dOutcomes, dNextId, nonBatchVars>>

\* saveClassification: no pool, or pool.connect() rejects; both before the try
ConnectFail ==
    /\ dPc = "connect"
    /\ dOutcomes' = Append(dOutcomes, [kind |-> "raised", id |-> <<>>, before |-> dDb, after |-> dDb])
    /\ dIndex' = afterItemError(dIndex, Len(dItems))
    /\ dPc' = "item"
    /\ UNCHANGED <<dItems, dSaved, dAttempts, dCls, dDb, dTx, dBefore, dNotices, dNextId, nonBatchVars>>

\* saveClassification: a client is connected
Connect ==
    /\ dPc = "connect"
    /\ dBefore' = dDb
    /\ dPc' = "begin"
    /\ UNCHANGED <<dItems, dIndex, dSaved, dAttempts, dCls, dDb, dTx, dOutcomes, dNotices, dNextId, nonBatchVars>>

\* BEGIN
BeginTx ==
    /\ dPc = "begin"
    /\ dTx' = NoRows
    /\ dPc' = "insert"
    /\ UNCHANGED <<dItems, dIndex, dSaved, dAttempts, dCls, dDb, dBefore, dOutcomes, dNotices, dNextId, nonBatchVars>>

\* INSERT INTO epistemic.statements; the id is gen_random_uuid()
InsertStatement ==
    /\ dPc = "insert"
    /\ dTx' = [dTx EXCEPT !.statements = @ \cup {statementRow(<<"s", ToString(dNextId)>>, dCls)}]
    /\ dCls' = [dCls EXCEPT !.id = <<"s", ToString(dNextId)>>]
    /\ dNextId' = dNextId + 1
    /\ dPc' = "select"
    /\ UNCHANGED <<dItems, dIndex, dSaved, dAttempts, dDb, dBefore, dOutcomes, dNotices, nonBatchVars>>

\* SELECT id FROM epistemic.types; no row throws inside the try
SelectType ==
    /\ dPc = "select"
    /\ dPc' = IF <<dCls.type, dCls.profile>> \in TypesTable THEN "link" ELSE "catch"
    /\ UNCHANGED <<dItems, dIndex, dSaved, dAttempts, dCls, dDb, dTx, dBefore, dOutcomes, dNotices, dNextId, nonBatchVars>>

\* INSERT INTO epistemic.statement_types
InsertLink ==
    /\ dPc = "link"
    /\ dTx' = [dTx EXCEPT !.links = @ \cup {linkRow(dCls.id, dCls)}]
    /\ dPc' = "commit"
    /\ UNCHANGED <<dItems, dIndex, dSaved, dAttempts, dCls, dDb, dBefore, dOutcomes, dNotices, dNextId, nonBatchVars>>

\* COMMIT, return statementId; the loop counts the item and goes on
Commit ==
    /\ dPc = "commit"
    /\ dDb' = commitTx(dDb, dTx)
    /\ dTx' = NoRows
    /\ dOutcomes' = Append(dOutcomes, Returned(dCls.id))
    /\ dSaved' = dSaved + 1
    /\ dIndex' = dIndex + 1
    /\ dPc' = "item"
    /\ UNCHANGED <<dItems, dAttempts, dCls, dBefore, dNotices, dNextId, nonBatchVars>>

\* any of the queries of the transaction rejects
QueryFail ==
    /\ dPc \in {"begin", "insert", "select", "link", "commit"}
    /\ dPc' = "catch"
    /\ UNCHANGED <<dItems, dIndex, dSaved, dAttempts, dCls, dDb, dTx, dBefore, dOutcomes, dNotices, dNextId, nonBatchVars>>

\* catch: ROLLBACK, throw error; the loop's catch logs it and goes on
Rollback ==
    /\ dPc = "catch"
    /\ dDb' = rollbackTx(dDb, dTx)
    /\ dTx' = NoRows
    /\ dOutcomes' = Append(dOutcomes, Raised(rollbackTx(dDb, dTx)))
    /\ dIndex' = afterItemError(dIndex, Len(dItems))
    /\ dPc' = "item"
    /\ UNCHANGED <<dItems, dSaved, dAttempts, dCls, dBefore, dNotices, dNextId, nonBatchVars>>

\* after the loop: the Notice with savedCount
BatchEnd ==
    /\ dPc = "item"
    /\ dIndex > Len(dItems)
    /\ dNotices' = Append(dNotices, NoticeCount(dSaved))
    /\ dPc' = "done"
    /\ UNCHANGED <<dItems, dIndex, dSaved, dAttempts, dCls, dDb, dTx, dBefore, dOutcomes, dNextId, nonBatchVars>>

NextBatch ==
    \/ BatchNoFile
    \/ BatchStart
    \/ ItemBegin
    \/ ConnectFail
    \/ Connect
    \/ BeginTx
    \/ InsertStatement
    \/ SelectType
    \/ InsertLink
    \/ Commit
    \/ QueryFail
    \/ Rollback
    \/ BatchEnd

SpecBatch == InitBatch /\ [][NextBatch]_vars

StatementIds(db) == {r.id : r \in db.statements}
LinkedIds(db) == {l.statement_id : l \in db.links}

\* C12: the committed store never holds a statement row without its
\* statement_types link; a call of saveClassification that returned an id
\* left both rows with that id committed; a call that raised left the
\* committed rows as they were when it started
C12_SaveAtomic ==
    /\ StatementIds(dDb) = LinkedIds(dDb)
    /\ \A i \in 1..Len(dOutcomes) :
          LET o == dOutcomes[i]
          IN  IF o.kind = "returned"
                 THEN /\ o.id \in StatementIds(o.after) \ StatementIds(o.before)
                      /\ o.id \in LinkedIds(o.after) \ LinkedIds(o.before)
                      /\ o.id \in StatementIds(dDb) \cap LinkedIds(dDb)
                 ELSE /\ o.after = o.before
                      /\ o.id = <<>>

\* a call failed on the missing type after its statement insert, and the
\* store holds what it held before
C12_Witness ==
    /\ dPc = "item"
    /\ dIndex = 3
    /\ dItems[1] = ItemGood
    /\ dItems[2] = ItemUnknownType
    /\ dNextId = 2
    /\ Len(dOutcomes) = 2
    /\ dOutcomes[1].kind = "returned"
    /\ dOutcomes[2].kind = "raised"
    /\ StatementIds(dDb) = {<<"s", "0">>}
    /\ LinkedIds(dDb) = {<<"s", "0">>}

Committed == {i \in 1..Len(dOutcomes) : dOutcomes[i].kind = "returned"}

\* C19: when autoClassifyDocument reports its count, every item has been
\* attempted exactly once and in order, whatever failed or was rejected
\* before it, and the count reported is the number of items whose store
\* write committed; while the loop runs, the attempts are the items up to
\* the current one, in order
C19_BatchGoesOn ==
    /\ dAttempts \in {[i \in 1..n |-> i] : n \in 0..Len(dItems)}
    /\ dPc = "item" => Len(dAttempts) = dIndex - 1
    /\ dSaved = Cardinality(Committed)
    /\ dSaved = Cardinality(dDb.statements)
    /\ (dPc = "done" /\ dItems # <<>> /\ dNotices[Len(dNotices)] # NoticeNoFile)
          => /\ dAttempts = [i \in 1..Len(dItems) |-> i]
             /\ dNotices[Len(dNotices)] = NoticeCount(Cardinality(dDb.statements))

\* a store failure on the first item, a commit on the second, count 1
C19_Witness ==
    /\ dPc = "done"
    /\ dItems = <<ItemUnknownType, ItemGood>>
    /\ dAttempts = <<1, 2>>
    /\ Len(dOutcomes) = 2
    /\ dOutcomes[1].kind = "raised"
    /\ dOutcomes[2].kind = "returned"
    /\ dNotices = <<NoticeAnalyzing, NoticeCount(1)>>

\* a validation rejection on the first item, a commit on the second
C19_WitnessRejected ==
    /\ dPc = "done"
    /\ dItems = <<ItemBlank, ItemGood>>
    /\ dAttempts = <<1, 2>>
    /\ Cardinality(dDb.statements) = 1
    /\ dNotices = <<NoticeAnalyzing, <<"Cannot classify empty text">>, NoticeCount(1)>>

-----------------------------------------------------------------------------
(* The tokenizer and the serializer as functions: parseMarkers over written *)
(* documents and over what createMarker returns (src/master-dashboard.ts).  *)

SegFoo == Colons \o <<"H", "X", " ", "f", "o", "o">> \o Colons
SegUnknown == Colons \o <<"Z", "Z", " ", "a">> \o Colons
SegBare == <<"H", " ", "x", " ">>

\* a marker with an identifier and no blank before the closing token
SegTight == Colons \o <<"H", "<", "u", ">", " ", "a">> \o Colons

TokenSegments == {SegText, SegPlain, SegFoo, SegIdent, SegTight, SegUnknown, SegBare}

TokenParts == UNION {[1..n -> TokenSegments] : n \in 0..MaxParts}

ContentSyms == {"a", " ", ":", "<", ">", "\n"}

\* contents without the end token
Contents ==
    {t \in UNION {[1..n -> ContentSyms] : n \in 0..MaxContent} :
        \A i \in 0..Len(t) : ~HasAt(t, i, Colons)}

InitToken ==
    /\ NodeIdle
    /\ MarkerIdle
    /\ BlockIdle
    /\ SyncIdle
    /\ ClassifyIdle
    /\ BatchIdle
    /\ tRegistry \in Registries
    /\ tParts \in TokenParts
    /\ tDoc = Cat(tParts)
    /\ tMade = <<>>
    /\ tNodes = <<>>
    /\ tLast = "load"

\* createMarker(shortcode, content) in an empty document
Serialize(definition, content) ==
    /\ tLast = "load"
    /\ tDoc = <<>>
    /\ tDoc' = createMarker(definition.shortcode, content, Undefined)
    /\ tParts' = <<tDoc'>>
    /\ tMade' = <<definition.shortcode, content>>
    /\ tLast' = "create"
    /\ UNCHANGED <<tRegistry, tNodes, nonTokenVars>>

\* parseMarkers(fileContent, shortcodeMap)
Tokenize ==
    /\ tLast \in {"load", "create"}
    /\ tNodes' = parseMarkers(tDoc, tRegistry)
    /\ tLast' = "parse"
    /\ UNCHANGED <<tRegistry, tParts, tDoc, tMade, nonTokenVars>>

\* updateFileWithUUIDs with, for every parsed marker that carries an
\* identifier, that same identifier
ReinjectOwn ==
    /\ tLast = "parse"
    /\ LET carrying == {i \in 1..Len(tNodes) : tNodes[i].uuid # Undefined}
       IN  tDoc' = updateFileWithUUIDs(tDoc, UpdatesFor(tNodes, [i \in carrying |-> tNodes[i].uuid]))
    /\ tLast' = "reinject"
    /\ UNCHANGED <<tRegistry, tParts, tMade, tNodes, nonTokenVars>>

NextToken ==
    \/ \E i \in 1..Len(tRegistry), content \in Contents : Serialize(tRegistry[i], content)
    \/ Tokenize
    \/ ReinjectOwn

SpecToken == InitToken /\ [][NextToken]_vars

\* C15: parseMarkers returns its markers in strictly ascending startOffset
\* with each endOffset at most the next startOffset; every rawMatch is the
\* document's substring [startOffset, endOffset), as long as the span, and
\* no span is empty
C15_OrderedDisjointSpans ==
    tLast = "parse" =>
        /\ \A i \in 1..Len(tNodes) :
              /\ tNodes[i].startOffset >= 0
              /\ tNodes[i].startOffset < tNodes[i].endOffset
              /\ tNodes[i].endOffset <= Len(tDoc)
              /\ tNodes[i].rawMatch = Substring(tDoc, tNodes[i].startOffset, tNodes[i].endOffset)
              /\ tNodes[i].endOffset - tNodes[i].startOffset = Len(tNodes[i].rawMatch)
        /\ \A i \in 1..(Len(tNodes) - 1) :
              /\ tNodes[i].startOffset < tNodes[i + 1].startOffset
              /\ tNodes[i].endOffset <= tNodes[i + 1].startOffset

\* two markers with text between them, tokenized
C15_Witness ==
    /\ tLast = "parse"
    /\ tParts = <<SegIdent, SegText, SegFoo>>
    /\ Len(tNodes) = 2
    /\ tNodes[1].endOffset < tNodes[2].startOffset
    /\ tNodes[2].endOffset = Len(tDoc)

\* C16: with the codes H and HX registered in either order, the document
\* :::HX foo::: gives exactly one marker, of code HX and HX's kind, with
\* content foo; and in no document is a marker that starts with :::HX
\* emitted under another code
C16_LongerCodeWins ==
    tLast = "parse" =>
        /\ tDoc = SegFoo =>
              tNodes = <<[uuid |-> Undefined, type |-> "Hypothesis_X", shortcode |-> <<"H", "X">>,
                          content |-> <<"f", "o", "o">>, startOffset |-> 0, endOffset |-> 12,
                          rawMatch |-> SegFoo]>>
        /\ \A i \in 1..Len(tNodes) :
              HasAt(tDoc, tNodes[i].startOffset + 3, <<"H", "X">>) => tNodes[i].shortcode = <<"H", "X">>

\* :::HX foo::: tokenized with H defined before HX
C16_Witness ==
    /\ tLast = "parse"
    /\ tRegistry = <<DefH, DefHX>>
    /\ tDoc = SegFoo
    /\ Len(tNodes) = 1
    /\ tNodes[1].shortcode = <<"H", "X">>

KindOf(code) == (CHOOSE d \in {tRegistry[i] : i \in 1..Len(tRegistry)} : d.shortcode = code).type

RoundTrips ==
    /\ Len(tNodes) = 1
    /\ tNodes[1].shortcode = tMade[1]
    /\ tNodes[1].type = KindOf(tMade[1])
    /\ tNodes[1].content = tMade[2]
    /\ tNodes[1].uuid = Undefined

\* C17 as stated: for every registered code C and every content T without
\* the end token, parseMarkers(createMarker(C, T)) is one marker with code C,
\* C's kind, content T and no identifier
C17_RoundTripAnyContent ==
    (tLast = "parse" /\ tMade # <<>>) => RoundTrips

\* C17: the same for every content T without the end token that neither
\* starts nor ends with whitespace
C17_RoundTripTrimmedContent ==
    (tLast = "parse" /\ tMade # <<>> /\ Trim(tMade[2]) = tMade[2]) => RoundTrips

\* the round trip of a content with a bracketed word, a blank and a colon
\* inside
C17_Witness ==
    /\ tLast = "parse"
    /\ tMade = <<<<"H">>, <<"<", " ", ":">>>>
    /\ RoundTrips

PartOffset(i) == Len(Cat(SubSeq(tParts, 1, i - 1)))

\* the marker a well-formed piece is on its own, at the piece's offset
OwnNode(i) ==
    LET n == parseMarkers(tParts[i], tRegistry)[1]
    IN  [n EXCEPT !.startOffset = @ + PartOffset(i), !.endOffset = @ + PartOffset(i)]

\* C18: in a document with an occurrence of an unregistered code, no marker
\* is emitted for that occurrence, and every well-formed marker of a
\* registered code written before the occurrence or after its closing :::
\* is emitted with its own code, content and offsets
C18_UnknownLeavesRestAlone ==
    (tLast = "parse" /\ \E u \in 1..Len(tParts) : tParts[u] = SegUnknown) =>
        /\ \A k \in 1..Len(tNodes) : tNodes[k].shortcode # <<"Z", "Z">>
        /\ \A i \in 1..Len(tParts) :
              tParts[i] \in {SegPlain, SegFoo, SegIdent} =>
                  \E k \in 1..Len(tNodes) : tNodes[k] = OwnNode(i)

\* C23: when every marker that carries an identifier is handed that same
\* identifier, updateFileWithUUIDs returns the document as it was
C23_ReinjectSameIdIdentical ==
    tLast = "reinject" => tDoc = Cat(tParts)

-----------------------------------------------------------------------------
(* Further claims about classifySelection (SpecClassify) *)

\* C21: once a classifySelection call has committed its record and written
\* its block, the block it wrote holds exactly one annotation under the
\* record's identifier with the 'ann-' prefix, and that annotation has the
\* record's kind, text, start and end offsets, author and confidence
C21_AnnotationAgreesWithRecord ==
    \A p \in Procs :
        (kPc[p] = "done" /\ kLocal[p].wrote) =>
            \E i \in 1..Len(kStore) :
                /\ kStore[i].id = kLocal[p].cls.id
                /\ \E k \in 1..Len(kLocal[p].block.annotations) :
                      LET a == kLocal[p].block.annotations[k]
                          r == kStore[i]
                      IN  /\ a.uuid = <<"ann-">> \o r.id
                          /\ a.kind = r.type
                          /\ a.text = r.content
                          /\ a.start = r.startOffset
                          /\ a.end = r.endOffset
                          /\ a.createdBy = r.taggedBy
                          /\ a.confidence = r.confidence

\* the text holds a start sentinel and no block can be read from it
HasUnreadableBlock(content) ==
    /\ LineMatches(content, SEMANTIC_BLOCK_START) # {}
    /\ extractSemanticBlock(content) = Absent

-----------------------------------------------------------------------------
(* The legacy marker parser, '::: [Type] {Attrs} content :::'               *)
(* (src/unnamed/part_003).  Its functions carry the names of the shortcode  *)
(* parser's; here they are prefixed with "legacy".                          *)

\* offset of the first symbol c at or after offset i, -1 when there is none
FirstSym(s, i, c) ==
    LET at == {j \in i..(Len(s) - 1) : j >= 0 /\ s[j + 1] = c}
    IN  IF at = {} THEN -1 ELSE Min(at)

\* offset of the first ":::" at or after offset i, -1 when there is none
FirstColons(s, i) ==
    LET at == {j \in i..(Len(s) - 3) : j >= 0 /\ HasAt(s, j, Colons)}
    IN  IF at = {} THEN -1 ELSE Min(at)

\* \s+((?:(?!:::).)*)\s*::: with the whitespace run ended at w: the content
\* runs to the first ":::" at e
LegacyTail(s, i, type, attributesStr, c, w, e) ==
    IF w = c + 1 \/ e < 0 THEN NoMatch
    ELSE [ok |-> TRUE, index |-> i, type |-> type, attributesStr |-> attributesStr,
          content |-> Substring(s, w, e), end |-> e + 3]

\* \{([^}]*)\}... with "{" expected at k and the first "}" at c
LegacyAttrs(s, i, type, k, c) ==
    IF ~(k < Len(s) /\ s[k + 1] = "{") \/ c < 0 THEN NoMatch
    ELSE LegacyTail(s, i, type, Substring(s, k + 1, c), c, WsRunEnd(s, c + 1),
                    FirstColons(s, WsRunEnd(s, c + 1)))

\* \[([^\]]+)\]\s*... with "[" expected at j and the first "]" at r
LegacyType(s, i, j, r) ==
    IF ~(j < Len(s) /\ s[j + 1] = "[") \/ r < j + 2 THEN NoMatch
    ELSE LegacyAttrs(s, i, Substring(s, j + 1, r), WsRunEnd(s, r + 1),
                     FirstSym(s, WsRunEnd(s, r + 1) + 1, "}"))

\* MARKER_REGEX at offset i
LegacyMatchAt(s, i) ==
    IF ~HasAt(s, i, Colons) THEN NoMatch
    ELSE LegacyType(s, i, WsRunEnd(s, i + 3), FirstSym(s, WsRunEnd(s, i + 3) + 1, "]"))

\* MARKER_REGEX.exec with lastIndex = from
LegacyExec(s, from) ==
    LET at == {i \in from..(Len(s) - 1) : LegacyMatchAt(s, i).ok}
    IN  IF at = {} THEN NoMatch ELSE LegacyMatchAt(s, Min(at))

\* String.prototype.split(',')
RECURSIVE SplitComma(_, _)
SplitComma(s, piece) ==
    IF s = <<>> THEN <<piece>>
    ELSE IF Head(s) = "," THEN <<piece>> \o SplitComma(Tail(s), <<>>)
    ELSE SplitComma(Tail(s), Append(piece, Head(s)))

\* attributes[key] = value on an object kept as a list of [k, v] in key order
SetAttr(attributes, key, value) ==
    IF \E n \in 1..Len(attributes) : attributes[n].k = key
    THEN [n \in 1..Len(attributes) |->
             IF attributes[n].k = key THEN [k |-> key, v |-> value] ELSE attributes[n]]
    ELSE Append(attributes, [k |-> key, v |-> value])

\* attributes[key], undefined when the key is missing
GetAttr(attributes, key) ==
    LET at == {n \in 1..Len(attributes) : attributes[n].k = key}
    IN  IF at = {} THEN Undefined ELSE attributes[Min(at)].v

\* one turn of the for loop of parseAttributes, the pair already trimmed
AddPair(attributes, pair, colonIndex) ==
    IF colonIndex = -1 THEN attributes
    ELSE IF Trim(Substring(pair, 0, colonIndex)) # <<>> /\ Trim(SubstringFrom(pair, colonIndex + 1)) # <<>>
         THEN SetAttr(attributes, Trim(Substring(pair, 0, colonIndex)), Trim(SubstringFrom(pair, colonIndex + 1)))
         ELSE attributes

RECURSIVE AddPairs(_, _)
AddPairs(attributes, pairs) ==
    IF pairs = <<>> THEN attributes
    ELSE AddPairs(AddPair(attributes, Trim(Head(pairs)), FirstSym(Trim(Head(pairs)), 0, ":")), Tail(pairs))

parseAttributes(attrStr) ==
    IF Trim(attrStr) = <<>> THEN <<>> ELSE AddPairs(<<>>, SplitComma(attrStr, <<>>))

IdKeys == {<<"I", "D">>, <<"U", "U", "I", "D">>, <<"i", "d">>, <<"u", "u", "i", "d">>}

\* attributes['ID'] || attributes['UUID'] || attributes['id'] || attributes['uuid']
AttrUuid(attributes) ==
    IF Truthy(GetAttr(attributes, <<"I", "D">>)) THEN GetAttr(attributes, <<"I", "D">>)
    ELSE IF Truthy(GetAttr(attributes, <<"U", "U", "I", "D">>)) THEN GetAttr(attributes, <<"U", "U", "I", "D">>)
    ELSE IF Truthy(GetAttr(attributes, <<"i", "d">>)) THEN GetAttr(attributes, <<"i", "d">>)
    ELSE GetAttr(attributes, <<"u", "u", "i", "d">>)

\* the four deletes, done when an identifier was found
WithoutIdKeys(attributes, uuid) ==
    LET Keep(a) == a.k \notin IdKeys
    IN  IF Truthy(uuid) THEN SelectSeq(attributes, Keep) ELSE attributes

\* nodes.push(...) for the match m
LegacyNode(s, m, attributes) ==
    [uuid |-> AttrUuid(attributes),
     type |-> Trim(m.type),
     attributes |-> WithoutIdKeys(attributes, AttrUuid(attributes)),
     content |-> Trim(m.content),
     startOffset |-> m.index,
     endOffset |-> m.end,
     rawMatch |-> Substring(s, m.index, m.end)]

RECURSIVE LegacyParseFrom(_, _)
LegacyParseMatch(s, m) ==
    IF ~m.ok THEN <<>>
    ELSE <<LegacyNode(s, m, parseAttributes(m.attributesStr))>> \o LegacyParseFrom(s, m.end)

LegacyParseFrom(s, from) == LegacyParseMatch(s, LegacyExec(s, from))

legacyParseMarkers(fileContent) == LegacyParseFrom(fileContent, 0)

\* key1.localeCompare(key2) < 0 for keys of lower-case letters
LetterRank(c) == CHOOSE n \in 1..4 : <<"a", "b", "k", "v">>[n] = c

RECURSIVE KeyBefore(_, _)
KeyBefore(a, b) ==
    IF b = <<>> THEN FALSE
    ELSE IF a = <<>> THEN TRUE
    ELSE IF Head(a) = Head(b) THEN KeyBefore(Tail(a), Tail(b))
    ELSE LetterRank(Head(a)) < LetterRank(Head(b))

\* the comparator of serializeAttributes: ID first, then localeCompare
PairBefore(x, y) ==
    IF x.k = <<"I", "D">> THEN TRUE
    ELSE IF y.k = <<"I", "D">> THEN FALSE
    ELSE KeyBefore(x.k, y.k)

RECURSIVE SortPairs(_)
SortPairs(attrs) ==
    IF attrs = <<>> THEN <<>>
    ELSE LET first == CHOOSE n \in 1..Len(attrs) : \A o \in (1..Len(attrs)) \ {n} : PairBefore(attrs[n], attrs[o])
             Others(a) == a # attrs[first]
         IN  <<attrs[first]>> \o SortPairs(SelectSeq(attrs, Others))

\* pairs.map(([key, value]) => `${key}:${value}`).join(', ')
RECURSIVE JoinPairs(_)
JoinPairs(pairs) ==
    IF pairs = <<>> THEN <<>>
    ELSE Head(pairs).k \o <<":">> \o Head(pairs).v
             \o (IF Len(pairs) > 1 THEN <<",", " ">> ELSE <<>>) \o JoinPairs(Tail(pairs))

serializeAttributes(attributes, uuid) ==
    JoinPairs(SortPairs(IF Truthy(uuid) THEN SetAttr(attributes, <<"I", "D">>, uuid) ELSE attributes))

legacyCreateMarker(type, content, attributes, uuid) ==
    Colons \o <<" ", "[">> \o type \o <<"]", " ", "{">> \o serializeAttributes(attributes, uuid)
        \o <<"}", " ">> \o content \o <<" ">> \o Colons

legacyInjectUUID(marker, uuid) ==
    legacyCreateMarker(marker.type, marker.content, marker.attributes, uuid)

\* the loop of the legacy updateFileWithUUIDs: the keys largest first, the
\* running offset added to each key
RECURSIVE LegacyApplyUpdates(_, _, _, _)
LegacyApplyUpdates(updatedContent, order, updates, offset) ==
    IF order = <<>> THEN updatedContent
    ELSE LegacyApplyUpdates(
             Substring(updatedContent, 0, Head(order) + offset)
                 \o legacyInjectUUID(updates[Head(order)].node, updates[Head(order)].uuid)
                 \o SubstringFrom(updatedContent, Head(order) + offset + Len(updates[Head(order)].node.rawMatch)),
             Tail(order), updates,
             offset + Len(legacyInjectUUID(updates[Head(order)].node, updates[Head(order)].uuid))
                    - Len(updates[Head(order)].node.rawMatch))

legacyUpdateFileWithUUIDs(fileContent, updates) ==
    LegacyApplyUpdates(fileContent, KeysDescending(DOMAIN updates), updates, 0)

LegText == <<"x", "\n">>
LegPlain == Colons \o <<" ", "[", "T", "]", " ", "{", "}", " ", "a", " ">> \o Colons
LegAttr == Colons \o <<"[", "T", "]", "{", "k", ":", "v", ",", "b", ":", "a", "}", " ", " ", "b", " ">> \o Colons
LegId == Colons \o <<" ", "[", "T", "]", " ", "{", "I", "D", ":", "u", "}", " ", "a", " ">> \o Colons

LegacySegments == {LegText, LegPlain, LegAttr, LegId}

LegacyDocuments == {Cat(ss) : ss \in UNION {[1..n -> LegacySegments] : n \in 0..MaxSegs}}

\* the legacy parser works on the document variables of the marker workflow;
\* it has no registry
InitLegacy ==
    /\ BlockIdle
    /\ SyncIdle
    /\ ClassifyIdle
    /\ BatchIdle
    /\ TokenIdle
    /\ NodeIdle
    /\ mRegistry = <<>>
    /\ mFile \in LegacyDocuments
    /\ mPrev = mFile
    /\ mAssigned = <<>>
    /\ mLast = "load"
    /\ mPass = 0

\* identifiers injected into any non-empty set of the parsed markers
LegacyInject(S, base) ==
    /\ mPass < MaxPasses
    /\ LET nodes == legacyParseMarkers(mFile)
           assigned == [i \in S |-> IdFor(base, i)]
       IN  /\ S \subseteq 1..Len(nodes)
           /\ S # {}
           /\ mFile' = legacyUpdateFileWithUUIDs(mFile, UpdatesFor(nodes, assigned))
           /\ mAssigned' = assigned
    /\ mPrev' = mFile
    /\ mLast' = "inject"
    /\ mPass' = mPass + 1
    /\ UNCHANGED <<mRegistry, nonMarkerVars>>

\* every parsed marker is rewritten with the identifier it already carries
LegacyReinject ==
    /\ mPass < MaxPasses
    /\ LET nodes == legacyParseMarkers(mFile)
           assigned == [i \in {n \in 1..Len(nodes) : Truthy(nodes[n].uuid)} |-> nodes[i].uuid]
       IN  /\ mFile' = legacyUpdateFileWithUUIDs(mFile, UpdatesFor(nodes, assigned))
           /\ mAssigned' = assigned
    /\ mPrev' = mFile
    /\ mLast' = "reinject"
    /\ mPass' = mPass + 1
    /\ UNCHANGED <<mRegistry, nonMarkerVars>>

NextLegacy ==
    \/ \E S \in (SUBSET (1..MaxSegs)) \ {{}}, base \in IdBases : LegacyInject(S, base)
    \/ LegacyReinject

SpecLegacy == InitLegacy /\ [][NextLegacy]_vars

LegacyNodesBefore == legacyParseMarkers(mPrev)

\* the document C22 describes: the original document copied left to right,
\* each updated marker's span replaced by its re-serialization with the
\* identifier
RECURSIVE LegacySpliced(_, _, _, _, _)
LegacySpliced(doc, nodes, assigned, i, from) ==
    IF i > Len(nodes) THEN SubSeq(doc, from + 1, Len(doc))
    ELSE IF i \in DOMAIN assigned
         THEN SubSeq(doc, from + 1, nodes[i].startOffset)
                  \o legacyInjectUUID(nodes[i], assigned[i])
                  \o LegacySpliced(doc, nodes, assigned, i + 1, nodes[i].endOffset)
         ELSE LegacySpliced(doc, nodes, assigned, i + 1, from)

\* C22: the legacy updateFileWithUUIDs, given updates for two or more
\* markers with offsets from the original document, returns the original
\* document with each updated marker's span replaced by its re-serialization
\* with the identifier and everything outside those spans unchanged
C22_LegacyRewritesOwnSpans ==
    (mPass > 0 /\ Cardinality(DOMAIN mAssigned) >= 2) =>
        mFile = LegacySpliced(mPrev, LegacyNodesBefore, mAssigned, 1, 0)

-----------------------------------------------------------------------------
(* The node store: insertNode, updateNode, getNodeByUUID and               *)
(* checkAndMarkSisterTerms of src/database-enhanced.ts.  A row of          *)
(* epistemic.atomic_nodes is [uuid, content, sister].  Every query of the  *)
(* store can succeed or fail.                                              *)

MaxSaves == 2

SisterLexicon == {"void"}

hasSisterTerms(content) == \E i \in DOMAIN content : content[i] \in SisterLexicon

NodeRow(uuid, content) == [uuid |-> uuid, content |-> content, sister |-> FALSE]

GeneratedUuid(n) == <<"n" \o ToString(n)>>

NodeMarkers == { [uuid |-> u, content |-> c] : u \in {Undefined, GeneratedUuid(1), <<"zz">>}, c \in {<<"b">>, <<"void">>} }

InitNode ==
    /\ MarkerIdle
    /\ BlockIdle
    /\ SyncIdle
    /\ ClassifyIdle
    /\ BatchIdle
    /\ TokenIdle
    /\ nStore = {NodeRow(GeneratedUuid(1), <<"a">>)}
    /\ nPc = "idle"
    /\ nMarker = <<>>
    /\ nCall = NoCall
    /\ nOutcomes = <<>>
    /\ nNextId = 1
    /\ nSaves = 0

NodeReturned(uuid, store) == [kind |-> "returned", id |-> uuid, carried |-> nMarker.uuid, existed |-> nCall.existed, before |-> nCall.before, after |-> Cardinality(store)]

NodeRaised == [kind |-> "raised", id |-> <<>>, carried |-> nMarker.uuid, existed |-> nCall.existed, before |-> nCall.before, after |-> Cardinality(nStore)]

(* insertNode is entered and asks the pool for a client. *)
InsertNodeCall(marker) ==
    /\ nPc = "idle"
    /\ nSaves < MaxSaves
    /\ nMarker' = marker
    /\ nCall' = [existed |-> \E r \in nStore : r.uuid = marker.uuid, before |-> Cardinality(nStore), uuid |-> <<>>]
    /\ nPc' = "connect"
    /\ nSaves' = nSaves + 1
    /\ UNCHANGED <<nStore, nOutcomes, nNextId, nonNodeVars>>

(* pool.connect() rejects: outside the try, the call raises. *)
NodeConnectFail ==
    /\ nPc = "connect"
    /\ nOutcomes' = Append(nOutcomes, NodeRaised)
    /\ nPc' = "idle"
    /\ UNCHANGED <<nStore, nMarker, nCall, nNextId, nSaves, nonNodeVars>>

NodeConnect ==
    /\ nPc = "connect"
    /\ nPc' = IF Truthy(nMarker.uuid) THEN "lookup" ELSE "insert"
    /\ UNCHANGED <<nStore, nMarker, nCall, nOutcomes, nNextId, nSaves, nonNodeVars>>

(* getNodeByUUID, the SELECT succeeds: a row, or null when there is none. *)
GetNodeByUUID ==
    /\ nPc = "lookup"
    /\ IF \E r \in nStore : r.uuid = nMarker.uuid
          THEN nPc' = "update" /\ nCall' = [nCall EXCEPT !.uuid = nMarker.uuid]
          ELSE nPc' = "insert" /\ nCall' = nCall
    /\ UNCHANGED <<nStore, nMarker, nOutcomes, nNextId, nSaves, nonNodeVars>>

(* getNodeByUUID, the SELECT fails: the catch logs and returns null. *)
GetNodeByUUIDFail ==
    /\ nPc = "lookup"
    /\ nPc' = "insert"
    /\ UNCHANGED <<nStore, nMarker, nCall, nOutcomes, nNextId, nSaves, nonNodeVars>>

AfterWrite(uuid, store) ==
    IF hasSisterTerms(nMarker.content)
       THEN nPc' = "sister" /\ nOutcomes' = nOutcomes
       ELSE nPc' = "idle" /\ nOutcomes' = Append(nOutcomes, NodeReturned(uuid, store))

(* updateNode, the UPDATE succeeds. *)
UpdateNode ==
    /\ nPc = "update"
    /\ nStore' = { IF r.uuid = nCall.uuid THEN [r EXCEPT !.content = nMarker.content] ELSE r : r \in nStore }
    /\ AfterWrite(nCall.uuid, nStore')
    /\ UNCHANGED <<nMarker, nCall, nNextId, nSaves, nonNodeVars>>

(* The INSERT succeeds; the store generates the uuid it returns. *)
InsertNew ==
    /\ nPc = "insert"
    /\ nNextId' = nNextId + 1
    /\ nStore' = nStore \cup {NodeRow(GeneratedUuid(nNextId'), nMarker.content)}
    /\ nCall' = [nCall EXCEPT !.uuid = GeneratedUuid(nNextId')]
    /\ AfterWrite(GeneratedUuid(nNextId'), nStore')
    /\ UNCHANGED <<nMarker, nSaves, nonNodeVars>>

(* checkAndMarkSisterTerms, the flagging UPDATE succeeds. *)
CheckAndMarkSisterTerms ==
    /\ nPc = "sister"
    /\ nStore' = { IF r.uuid = nCall.uuid THEN [r EXCEPT !.sister = TRUE] ELSE r : r \in nStore }
    /\ nOutcomes' = Append(nOutcomes, NodeReturned(nCall.uuid, nStore'))
    /\ nPc' = "idle"
    /\ UNCHANGED <<nMarker, nCall, nNextId, nSaves, nonNodeVars>>

(* The UPDATE, the INSERT or the flagging UPDATE fails: logged, rethrown. *)
NodeQueryFail ==
    /\ nPc \in {"update", "insert", "sister"}
    /\ nOutcomes' = Append(nOutcomes, NodeRaised)
    /\ nPc' = "idle"
    /\ UNCHANGED <<nStore, nMarker, nCall, nNextId, nSaves, nonNodeVars>>

NextNode ==
    \/ \E marker \in NodeMarkers : InsertNodeCall(marker)
    \/ NodeConnectFail
    \/ NodeConnect
    \/ GetNodeByUUID
    \/ GetNodeByUUIDFail
    \/ UpdateNode
    \/ InsertNew
    \/ CheckAndMarkSisterTerms
    \/ NodeQueryFail

SpecNode == InitNode /\ [][NextNode]_vars

(* C25: a call of insertNode whose marker carries the identifier of a     *)
(* stored record either updates that record and returns the same          *)
(* identifier or raises; the number of records stays as it was.           *)
C25_NoDuplicateNode ==
    \A i \in DOMAIN nOutcomes :
        (Truthy(nOutcomes[i].carried) /\ nOutcomes[i].existed) =>
            /\ nOutcomes[i].after = nOutcomes[i].before
            /\ nOutcomes[i].kind = "returned" => nOutcomes[i].id = nOutcomes[i].carried


-----------------------------------------------------------------------------
(* Further claims about reconciliation *)

(* C26: every annotation produced by syncClassificationsToBlock carries   *)
(* the line numbers getLineNumberFromOffset gives for the record's        *)
(* offsets in the document text, so both are at least 1, for every text   *)
(* including the empty one.                                               *)
C26_SyncLineNumbers ==
    sLast = "sync" =>
        \A i \in 1..Len(sBlock.annotations) :
            /\ sBlock.annotations[i].lineStart = getLineNumberFromOffset(sText, sStore[i].start_offset)
            /\ sBlock.annotations[i].lineEnd = getLineNumberFromOffset(sText, sStore[i].end_offset)
            /\ sBlock.annotations[i].lineStart >= 1
            /\ sBlock.annotations[i].lineEnd >= 1


(* C27: from a block in which both endpoints of every relationship name   *)
(* annotation ids of the block, after any sequence of upsertAnnotation,   *)
(* removeAnnotation and syncClassificationsToBlock both endpoints of      *)
(* every relationship still name annotation ids of the block.             *)
C27_RelationshipsResolve == EndpointsPresent(sBlock)


DistinctIds(annotations) ==
    \A i, j \in 1..Len(annotations) : annotations[i].uuid = annotations[j].uuid => i = j

Occurrences(annotations, uuid) ==
    Cardinality({i \in 1..Len(annotations) : annotations[i].uuid = uuid})

(* C29: from a block whose annotation ids are pairwise distinct, an        *)
(* upsertAnnotation or removeAnnotation call leaves them pairwise          *)
(* distinct; the upserted id is then present exactly once, the removed id  *)
(* is absent.                                                              *)
C29_IdsStayUnique ==
    [][/\ \A a \in UpsertInputs : (Upsert(a) /\ DistinctIds(sBlock.annotations)) =>
              /\ DistinctIds(sBlock'.annotations)
              /\ Occurrences(sBlock'.annotations, a.uuid) = 1
       /\ \A a \in BlockAnnotations : (RemoveAnn(a.uuid) /\ DistinctIds(sBlock.annotations)) =>
              /\ DistinctIds(sBlock'.annotations)
              /\ Occurrences(sBlock'.annotations, a.uuid) = 0]_vars

\* three distinct ids after an upsert appended one, then one of them removed
C29_Witness ==
    /\ sLast = "removeAnn"
    /\ Len(sPrev.annotations) = 3
    /\ DistinctIds(sPrev.annotations)
    /\ Len(sBlock.annotations) = 2
    /\ DistinctIds(sBlock.annotations)

(* C30: after syncClassificationsToBlock(block, records, text), for every  *)
(* block, record list and text, findUnsyncedAnnotations(block, records)    *)
(* is empty.                                                               *)
C30_ResyncClearsDrift ==
    sLast = "sync" => findUnsyncedAnnotations(sBlock, sStore) = <<>>

\* the block drifted before the sync: it held an annotation the store lacks
C30_Witness ==
    /\ sLast = "sync"
    /\ findUnsyncedAnnotations(sPrev, sStore) # <<>>
    /\ Len(sBlock.annotations) = 2
    /\ \E i \in 1..2 : ~StartsWithAnn(sStore[i].id)


-----------------------------------------------------------------------------
(* Further claims about the semantic block codec *)

(* C28: embedding the same block a second time leaves the document as the *)
(* first embedding made it, byte for byte, for every document and block.  *)
C28_ReembedStable ==
    [][\A block \in Blocks :
           (Embed(block) /\ bLast = "embed" /\ bBlock = block) => bDoc' = bDoc]_vars

\* the same, for documents whose body ended without whitespace before the
\* first embedding
ReembedStableTrimmedBody ==
    [][\A block \in Blocks :
           (/\ Embed(block) /\ bLast = "embed" /\ bBlock = block
            /\ TrimEnd(removeSemanticBlock(bPrev)) = removeSemanticBlock(bPrev)) => bDoc' = bDoc]_vars


=============================================================================
